---------------------------- MODULE Spec2Model ----------------------------
(***************************************************************************)
(* Model of the conversation-memory core of the RAG assistant:             *)
(* MemoryManager (backend/src/rag/memory_manager.py) with its token        *)
(* accounting, threshold-triggered summarization and message assembly,     *)
(* the four provider adapters and process_query                            *)
(* (backend/src/rag/llm_query.py) and query_documents with its relevance   *)
(* gate (backend/src/app.py, backend/src/rag/rag_system.py).               *)
(*                                                                         *)
(* Text is a sequence of atoms (strings).  An atom is either one of the    *)
(* literal pieces the code writes into an f-string or an opaque piece of   *)
(* user/model text.  The tokenizer (tiktoken, an external library) is      *)
(* abstracted as a weight per atom, summed over the text.                  *)
(***************************************************************************)
EXTENDS Integers, Sequences, FiniteSets, TLC

\* ------------------------------------------------------------------ bounds
\* Longest chat history the model lets add_exchange build.
MaxHist == 18
\* Most large (2000-token) answers one history may hold.
MaxBig == 2
\* Longest chat history at which the model lets a query through the provider
\* adapters begin.
MaxQueryHist == 8
\* Longest chat history at which a thread may begin a query, and the most
\* messages truncated away before the threads begin no further query.
MaxThreadHist == 10
MaxDropped == 3
\* Longest text, in sentences, handed to chunk_document; longest text, in
\* characters, and largest chunk_size handed to the fixed-size chunker.
MaxSentences == 4
MaxChars == 6
MaxChunkSize == 3

\* --------------------------------------------------------- program constants
TOKEN_LIMIT == 8000
\* SUMMARIZE_THRESHOLD = 0.7 and QUESTION_THRESHOLD = 0.2, in tenths.
SUMMARIZE_THRESHOLD_TENTHS == 7
QUESTION_THRESHOLD_TENTHS == 2
\* The number of most recent messages summarization keeps (the literal 6).
RECENT_KEPT == 6
\* max_retries of _summarize_with_model.
max_retries == 2
\* The fallback summary shows every message up to this many (the literal 10).
FALLBACK_FULL_MAX == 10
\* ... and beyond that the first and the last this many (the literal 5).
FALLBACK_EDGE == 5

\* Python's None for an Optional[str].
None == <<"None">>

SYSTEM == "system"
USER == "user"
ASSISTANT == "assistant"

SYSTEM_PROMPT == <<"SYSTEM_PROMPT">>
MARKER == "Previous conversation summary:"
ELISION == "\n... [previous exchanges] ..."
QUESTION_TOO_LONG == "Your question is too long. Please reduce your input to continue the conversation."
CONVERSATION_TOO_LONG == "The conversation has become too long. Please start a new conversation to continue."
REMEMBER == "\n\nRemember: If the answer is not fully contained in the context, reply ONLY with 'I don't have enough information to answer this question.'"
NoError == "None"

\* ------------------------------------------------------------------ inputs
Queries == {<<"q">>, <<"qMax">>, <<"qLong">>}
Contexts == {<<"cB">>, <<"cH">>}
Answers == {<<"aS">>, <<"aB">>}
CommittedQueries == {<<"q">>}
Providers == {"groq", "openai", "gemini", "deepseek", "mistral"}
KeyInputs == {None, <<" ">>, <<" ", "k", " ">>}
\* What one summarizing provider call can do: return a response whose text is
\* one of these (None: no text in the response; the last one is a model that
\* opens its text with the marker itself), or raise.
ResponseTexts == {None, <<>>, <<" ">>, <<" ", "S", " ">>, <<MARKER, "S">>}
Raised == {"InternalServerError", "ServiceUnavailable", "RateLimitError",
           "APIConnectionError", "APIError", "Exception"}
Outcomes == [kind : {"response"}, text : ResponseTexts]
              \cup [kind : Raised, text : {None}]

\* ------------------------------------------------------------ token counter
TokensOf(atom) ==
    CASE atom = "q" -> 10
      [] atom = "qMax" -> 1600
      [] atom = "qLong" -> 1601
      [] atom = "aS" -> 20
      [] atom = "aB" -> 2000
      [] atom = "aH" -> 4000
      [] atom = "cM" -> 1500
      [] atom = "cB" -> 4970
      [] atom = "cH" -> 7450
      [] atom = "d1" -> 120
      [] atom = "d2" -> 120
      [] atom = "d3" -> 120
      [] atom = "dB" -> 5000
      [] atom = "SYSTEM_PROMPT" -> 500
      [] atom = "S" -> 100
      [] atom = MARKER -> 4
      [] atom = ELISION -> 6
      [] atom = "User: " -> 2
      [] atom = "Assistant: " -> 2
      [] atom = "Context:\n" -> 3
      [] atom = "\n\nQuestion: " -> 4
      [] atom = REMEMBER -> 33
      [] atom = "\n\nIn total: " -> 4
      [] atom = " exchanges summarized." -> 3
      [] OTHER -> 1

RECURSIVE count_tokens(_)
count_tokens(text) ==
    IF text = <<>> THEN 0 ELSE TokensOf(Head(text)) + count_tokens(Tail(text))

RECURSIVE SumTokens(_)
SumTokens(messages) ==
    IF messages = <<>> THEN 0
    ELSE count_tokens(Head(messages).content) + SumTokens(Tail(messages))

get_chat_history_token_count(history) == SumTokens(history)

ChatMessage(role, content) == [role |-> role, content |-> content]

\* ------------------------------------------------------------------ strings
IsSpace(c) == c \in {" ", "\n"}

RECURSIVE LStrip(_)
LStrip(s) == IF s # <<>> /\ IsSpace(Head(s)) THEN LStrip(Tail(s)) ELSE s

RECURSIVE RStrip(_)
RStrip(s) ==
    IF s # <<>> /\ IsSpace(s[Len(s)]) THEN RStrip(SubSeq(s, 1, Len(s) - 1)) ELSE s

Strip(s) == RStrip(LStrip(s))

\* Python truthiness of an Optional[str].
Truthy(s) == s # None /\ s # <<>>

RECURSIVE Join(_, _)
Join(sep, parts) ==
    IF parts = <<>> THEN <<>>
    ELSE IF Len(parts) = 1 THEN parts[1]
    ELSE parts[1] \o <<sep>> \o Join(sep, Tail(parts))

\* Python slices seq[:n] and seq[-n:].
FirstN(seq, n) == SubSeq(seq, 1, IF n < Len(seq) THEN n ELSE Len(seq))
LastN(seq, n) == IF Len(seq) <= n THEN seq ELSE SubSeq(seq, Len(seq) - n + 1, Len(seq))
AllButLastN(seq, n) == IF Len(seq) <= n THEN <<>> ELSE SubSeq(seq, 1, Len(seq) - n)


\* ---------------------------------------------------------------- api keys
\* APIKeyManager.get_groq_key / get_openai_key / get_gemini_key /
\* get_deepseek_key: the four bodies are the same.
get_key(user_key) ==
    IF Truthy(user_key) /\ Truthy(Strip(user_key)) THEN Strip(user_key) ELSE None

\* ------------------------------------------------------- summarize_messages
FormattedMessages(messages) ==
    [i \in 1..Len(messages) |->
        <<IF messages[i].role = USER THEN "User: " ELSE "Assistant: ">>
            \o messages[i].content]

ConversationText(messages) == Join("\n", FormattedMessages(messages))

\* Mutant of FallbackSummary: the elision starts at 10 messages, not above 10.
FallbackSummary_AtTen(formatted_messages) ==
    IF Len(formatted_messages) >= FALLBACK_FULL_MAX
    THEN <<MARKER, "\n">>
            \o Join("\n", FirstN(formatted_messages, FALLBACK_EDGE))
            \o <<ELISION>>
            \o Join("\n", LastN(formatted_messages, FALLBACK_EDGE))
            \o <<"\n\nIn total: ", ToString(Len(formatted_messages)),
                 " exchanges summarized.">>
    ELSE <<MARKER, "\n">> \o Join("\n", formatted_messages)

\* The fallback when the model gave no summary (lines 104-118).
FallbackSummary(formatted_messages) ==
    IF Len(formatted_messages) > FALLBACK_FULL_MAX
    THEN <<MARKER, "\n">>
            \o Join("\n", FirstN(formatted_messages, FALLBACK_EDGE))
            \o <<ELISION>>
            \o Join("\n", LastN(formatted_messages, FALLBACK_EDGE))
            \o <<"\n\nIn total: ", ToString(Len(formatted_messages)),
                 " exchanges summarized.">>
    ELSE <<MARKER, "\n">> \o Join("\n", formatted_messages)

\* Mutant of summarize_messages: tests "is not None" where the code tests
\* truthiness, so an empty model text is taken for a summary.
summarize_messages_NoneOnly(messages, model_summary) ==
    IF model_summary # None
    THEN <<MARKER, "\n">> \o model_summary
    ELSE <<MARKER, "\n">> \o Join("\n", FormattedMessages(messages))

\* summarize_messages, given what _summarize_with_model returned (None also
\* stands for an exception it raised, which the try/except turns into the
\* fallback).
summarize_messages(messages, model_summary) ==
    IF Truthy(model_summary)
    THEN <<MARKER, "\n">> \o model_summary
    ELSE FallbackSummary(FormattedMessages(messages))

\* ----------------------------------------------------- _summarize_with_model
KnownProvider(api_provider) == api_provider \in {"groq", "openai", "gemini", "deepseek"}

\* The except clause of the retry loop that sleeps and retries.  For groq,
\* openai and deepseek it is (InternalServerError, APIError) of the openai
\* package, whose RateLimitError and APIConnectionError are APIErrors; for
\* gemini it is google's (InternalServerError, ServiceUnavailable).
SummaryRetryable(api_provider, kind) ==
    IF api_provider = "gemini"
    THEN kind \in {"InternalServerError", "ServiceUnavailable"}
    ELSE kind \in {"InternalServerError", "APIError", "RateLimitError",
                   "APIConnectionError"}

\* response...content.strip(); a response without text raises inside the
\* loop's try and the loop's "except Exception" returns None.
ResponseSummary(text) == IF text = None THEN None ELSE Strip(text)

\* wait_time = 2 ** attempt
RECURSIVE Pow2(_)
Pow2(n) == IF n = 0 THEN 1 ELSE 2 * Pow2(n - 1)

\* ---------------------------------------------------------- prepare_context
\* Mutant of QuestionTooLong: compares with the summarize threshold.
QuestionTooLong_WrongThreshold(query) ==
    count_tokens(query) * 10 > TOKEN_LIMIT * SUMMARIZE_THRESHOLD_TENTHS

QuestionTooLong(query) ==
    count_tokens(query) * 10 > TOKEN_LIMIT * QUESTION_THRESHOLD_TENTHS

\* int(self.token_limit * self.summarize_threshold)
seventy_percent_limit == (TOKEN_LIMIT * SUMMARIZE_THRESHOLD_TENTHS) \div 10

total_estimated_tokens(history, query, system_prompt, context) ==
    count_tokens(system_prompt) + count_tokens(context) + count_tokens(query)
        + get_chat_history_token_count(history)

\* Mutant of NeedsSummarization: the token total is not tested.
NeedsSummarization_NoTokenTest(history, query, system_prompt, context) ==
    /\ Len(history) > 0
    /\ Len(history) > RECENT_KEPT

\* Mutant of NeedsSummarization: fires from 6 messages on, not from 7.
NeedsSummarization_AtSix(history, query, system_prompt, context) ==
    /\ total_estimated_tokens(history, query, system_prompt, context)
           > seventy_percent_limit
    /\ Len(history) > 0
    /\ Len(history) >= RECENT_KEPT

NeedsSummarization(history, query, system_prompt, context) ==
    /\ total_estimated_tokens(history, query, system_prompt, context)
           > seventy_percent_limit
    /\ Len(history) > 0
    /\ Len(history) > RECENT_KEPT

\* Mutant of MessagesToSummarize: chat_history[:-7], one message is lost.
MessagesToSummarize_OffByOne(history) == AllButLastN(history, RECENT_KEPT + 1)

\* self.chat_history[:-6]
MessagesToSummarize(history) == AllButLastN(history, RECENT_KEPT)

\* Mutant of TruncatedHistory: the summary is stored at the head of the history.
TruncatedHistory_StoresSummary(history, summary_content) ==
    <<ChatMessage(SYSTEM, summary_content)>> \o LastN(history, RECENT_KEPT)

\* self.chat_history = self.chat_history[-6:]
\* Mutant of TruncatedHistory: keeps the last five messages.
TruncatedHistory_KeepsFive(history, summary_content) == LastN(history, 5)

TruncatedHistory(history, summary_content) == LastN(history, RECENT_KEPT)

\* Mutant of SummaryMessages: the marker is put in front of every summary.
SummaryMessages_WrapsAgain(summary_content) ==
    IF Truthy(summary_content)
    THEN <<ChatMessage(SYSTEM, <<MARKER, "\n">> \o summary_content)>>
    ELSE <<>>

\* Lines 189-196: the summary message, if any.
SummaryMessages(summary_content) ==
    IF Truthy(summary_content) /\ \A i \in 1..Len(summary_content) : summary_content[i] # MARKER
    THEN <<ChatMessage(SYSTEM, <<MARKER, "\n">> \o summary_content)>>
    ELSE IF Truthy(summary_content)
    THEN <<ChatMessage(SYSTEM, summary_content)>>
    ELSE <<>>

FinalUserMessage(context, query) ==
    ChatMessage(USER, <<"Context:\n">> \o context \o <<"\n\nQuestion: ">>
                          \o query \o <<REMEMBER>>)

\* Mutant of AssembleMessages: the summary comes after the history.
AssembleMessages_SummaryLast(system_prompt, summary_content, history, context, query) ==
    <<ChatMessage(SYSTEM, system_prompt)>>
        \o history
        \o SummaryMessages(summary_content)
        \o <<FinalUserMessage(context, query)>>

\* Lines 186-206.
AssembleMessages(system_prompt, summary_content, history, context, query) ==
    <<ChatMessage(SYSTEM, system_prompt)>>
        \o SummaryMessages(summary_content)
        \o history
        \o <<FinalUserMessage(context, query)>>

\* Mutant of OverLimit: the final context+query message is not counted.
OverLimit_SkipsFinalMessage(messages) ==
    SumTokens(SubSeq(messages, 1, Len(messages) - 1)) > TOKEN_LIMIT

\* Mutant of OverLimit: a sum equal to the limit is refused.
OverLimit_AtLimit(messages) == SumTokens(messages) >= TOKEN_LIMIT

OverLimit(messages) == SumTokens(messages) > TOKEN_LIMIT

\* Mutant of FinalResult: no final validation.
FinalResult_NoValidation(messages, needs_summarization) ==
    [messages |-> messages, error |-> NoError, summarized |-> needs_summarization]

\* Lines 208-214: the returned triple.
FinalResult(messages, needs_summarization) ==
    IF OverLimit(messages)
    THEN [messages |-> <<>>, error |-> CONVERSATION_TOO_LONG, summarized |-> FALSE]
    ELSE [messages |-> messages, error |-> NoError, summarized |-> needs_summarization]


\* -------------------------------------------------------------------- state
VARIABLES
    chat_history,       \* MemoryManager.chat_history
    pc,                 \* "idle", or "summarizing": inside _summarize_with_model's retry loop
    call,               \* the current or last call: operation, arguments, locals
    ret,                \* what the last completed call returned
    pre_history,        \* chat_history when the current or last call began
    conversation_text,  \* the text summarize_messages handed to the model code
    model_summary,      \* what _summarize_with_model returned
    summary_content,    \* prepare_context's summary_content
    provider_calls,     \* provider requests made by the current or last call
    sleeps,             \* time.sleep arguments of the current or last call
    prev_summarized,    \* the call before this prepare_context was a summarizing prepare_context
    frame,              \* the query in progress above the memory manager: entry
                        \* point, arguments, position, locals and return value
    collection,         \* the ChromaDB collection: one record per stored chunk
    last_doc,           \* the last document operation and what it returned; ids
                        \* are the ids an upload made for collection.add
    first_ids,          \* per file, the ids its first indexing upload generated,
                        \* and whether it was indexed again since
    key_store,          \* main.py's api_key_manager: api_keys, selected_provider
    threads,            \* per thread, the position and locals of its query; older
                        \* and removed number the messages from the first one ever
                        \* added
    dropped,            \* how many messages truncations have removed so far
    chunker             \* the chunking call under way or just done: arguments,
                        \* loop variables, returned chunks

vars == <<chat_history, pc, call, ret, pre_history, conversation_text,
          model_summary, summary_content, provider_calls, sleeps, prev_summarized,
          frame, collection, last_doc, first_ids, key_store, threads, dropped,
          chunker>>

\* The state beside the conversation memory and the query in progress.
outside == <<collection, last_doc, first_ids, key_store, threads, dropped, chunker>>
\* The conversation memory's own state, the history apart.
memory == <<pc, call, ret, pre_history, conversation_text, model_summary,
            summary_content, provider_calls, sleeps, prev_summarized>>

NoCall == [op |-> "none", query |-> <<>>, context |-> <<>>, api_provider |-> "",
           attempt |-> 0, needs_summarization |-> FALSE]
NoReturn == [messages |-> <<>>, error |-> NoError, summarized |-> FALSE]
\* No query in progress.
NoFrame == [entry |-> "none", stage |-> "none", api_provider |-> "",
            query |-> <<>>, context |-> <<>>, results |-> <<>>, retries |-> 0,
            api_keys |-> [p \in {"groq", "openai", "gemini", "deepseek"} |-> None],
            attempt |-> 0, attempts |-> <<>>, chat_sleeps |-> <<>>, added |-> 0,
            entry_history |-> <<>>, prepared |-> FALSE, result |-> None,
            count |-> 0, api_key |-> None]

\* No chunking call yet.
NoChunking == [op |-> "none", text |-> <<>>, chunk_size |-> 0, chunk_overlap |-> 0,
               min_chunk_size |-> 0, start |-> 0, at |-> "returned",
               spans |-> <<>>, chunks |-> <<>>]

\* The threads that serve queries, and a thread that serves none.
Threads == {"A", "B"}
NoThread == [at |-> "idle", query |-> <<>>, context |-> <<>>,
             messages_to_summarize |-> <<>>, older |-> {}, summary_content |-> None,
             removed |-> {}, response |-> None]

Init ==
    /\ chat_history = <<>>
    /\ pc = "idle"
    /\ call = NoCall
    /\ ret = NoReturn
    /\ pre_history = <<>>
    /\ conversation_text = None
    /\ model_summary = None
    /\ summary_content = None
    /\ provider_calls = 0
    /\ sleeps = <<>>
    /\ prev_summarized = FALSE
    /\ frame = NoFrame
    /\ collection = <<>>
    /\ last_doc = [op |-> "none", filename |-> "", documents |-> <<>>,
                   doc_id |-> [filename |-> "", chunk_index |-> 0, text_hash |-> <<>>],
                   message |-> <<>>, success |-> FALSE, ids |-> <<>>,
                   before |-> <<>>, listing |-> <<>>]
    /\ first_ids = {}
    /\ key_store = [api_keys |-> [p \in {"groq", "openai", "gemini", "deepseek"} |-> <<>>],
                    selected_provider |-> "groq"]
    /\ threads = [t \in Threads |-> NoThread]
    /\ dropped = 0
    /\ chunker = NoChunking

BigAnswers(history) ==
    Cardinality({i \in 1..Len(history) : history[i].content = <<"aB">>})

\* The rest of prepare_context once summary_content is known (lines 183-214).
Complete(query, context, needs_summarization, summary) ==
    LET kept == IF needs_summarization
                THEN TruncatedHistory(chat_history, summary)
                ELSE chat_history
        messages == AssembleMessages(SYSTEM_PROMPT, summary, kept, context, query)
    IN /\ chat_history' = kept
       /\ summary_content' = summary
       /\ ret' = FinalResult(messages, needs_summarization)
       /\ pc' = "idle"

\* prepare_context(query, SYSTEM_PROMPT, context, api_provider, <key of that
\* provider>), up to its return or to the first request of the summarizing
\* retry loop.  The provider and its key are read only when summarization
\* fires, so they are drawn there, from the values the caller may pass.
PrepareCall(query, context, providers, api_keys) ==
    /\ pc = "idle"
    /\ pre_history' = chat_history
    /\ prev_summarized' = (call.op = "prepare_context" /\ call.needs_summarization)
    /\ provider_calls' = 0
    /\ sleeps' = <<>>
    /\ IF QuestionTooLong(query)
       THEN /\ ret' = [messages |-> <<>>, error |-> QUESTION_TOO_LONG, summarized |-> FALSE]
            /\ call' = [op |-> "prepare_context", query |-> query, context |-> context,
                        api_provider |-> "", attempt |-> 0, needs_summarization |-> FALSE]
            /\ conversation_text' = None
            /\ model_summary' = None
            /\ summary_content' = None
            /\ UNCHANGED <<chat_history, pc>>
       ELSE IF NeedsSummarization(chat_history, query, SYSTEM_PROMPT, context)
       THEN /\ conversation_text' = ConversationText(MessagesToSummarize(chat_history))
            /\ \E api_provider \in providers, api_key \in api_keys,
                  client_raises \in BOOLEAN :
               \* client_raises: building the provider's client (or importing
               \* its package) raises, which the outer except turns into None
               IF KnownProvider(api_provider) /\ get_key(api_key) # None
                     /\ ~client_raises
               THEN \* into the retry loop
                    /\ call' = [op |-> "prepare_context", query |-> query,
                                context |-> context, api_provider |-> api_provider,
                                attempt |-> 0, needs_summarization |-> TRUE]
                    /\ pc' = "summarizing"
                    /\ model_summary' = None
                    /\ summary_content' = None
                    /\ UNCHANGED <<chat_history, ret>>
               ELSE \* unknown provider, no key or no client: _summarize_with_model
                    \* returns None
                    /\ call' = [op |-> "prepare_context", query |-> query,
                                context |-> context, api_provider |-> "",
                                attempt |-> 0, needs_summarization |-> TRUE]
                    /\ model_summary' = None
                    /\ Complete(query, context, TRUE,
                                summarize_messages(MessagesToSummarize(chat_history), None))
       ELSE /\ call' = [op |-> "prepare_context", query |-> query, context |-> context,
                        api_provider |-> "", attempt |-> 0, needs_summarization |-> FALSE]
            /\ conversation_text' = None
            /\ model_summary' = None
            /\ Complete(query, context, FALSE, None)

\* prepare_context called directly, with any provider name and any key.
PrepareContext(query, context) == PrepareCall(query, context, Providers, KeyInputs)

\* The summarizing call got its summary (or None): back in summarize_messages
\* and prepare_context.
Summarized(result) ==
    /\ model_summary' = result
    /\ call' = [call EXCEPT !.api_provider = ""]
    /\ Complete(call.query, call.context, TRUE,
                summarize_messages(MessagesToSummarize(chat_history), result))

\* One request of the summarizing retry loop, with its outcome.
SummarizeAttempt(outcome) ==
    /\ pc = "summarizing"
    /\ provider_calls' = provider_calls + 1
    /\ UNCHANGED <<pre_history, conversation_text, prev_summarized>>
    /\ IF outcome.kind = "response"
       THEN /\ Summarized(ResponseSummary(outcome.text))
            /\ UNCHANGED sleeps
       ELSE IF SummaryRetryable(call.api_provider, outcome.kind)
       THEN IF call.attempt < max_retries
            THEN /\ sleeps' = Append(sleeps, Pow2(call.attempt))
                 /\ call' = [call EXCEPT !.attempt = @ + 1]
                 /\ UNCHANGED <<chat_history, pc, ret, model_summary, summary_content>>
            ELSE /\ Summarized(None)
                 /\ UNCHANGED sleeps
       ELSE /\ Summarized(None)
            /\ UNCHANGED sleeps

\* add_message and add_exchange, on a history.
add_message(history, role, content) == Append(history, ChatMessage(role, content))
\* Mutant of add_exchange: the answer goes in before the question.
add_exchange_AnswerFirst(history, query, response) ==
    add_message(add_message(history, ASSISTANT, response), USER, query)

add_exchange(history, query, response) ==
    add_message(add_message(history, USER, query), ASSISTANT, response)

\* add_exchange(query, response) called directly.
AddExchange(query, response) ==
    /\ pc = "idle"
    /\ Len(chat_history) + 2 <= MaxHist
    /\ BigAnswers(chat_history) + (IF response = <<"aB">> THEN 1 ELSE 0) <= MaxBig
    /\ chat_history' = add_exchange(chat_history, query, response)
    /\ call' = [NoCall EXCEPT !.op = "add_exchange"]
    /\ ret' = NoReturn
    /\ pre_history' = chat_history
    /\ conversation_text' = None
    /\ model_summary' = None
    /\ summary_content' = None
    /\ provider_calls' = 0
    /\ sleeps' = <<>>
    /\ prev_summarized' = FALSE
    /\ UNCHANGED pc

\* Mutant of ClearHistory: the last exchange stays.
ClearHistory_KeepsLastExchange ==
    /\ pc = "idle"
    /\ chat_history' = LastN(chat_history, 2)
    /\ call' = [NoCall EXCEPT !.op = "clear_history"]
    /\ ret' = NoReturn
    /\ pre_history' = chat_history
    /\ conversation_text' = None
    /\ model_summary' = None
    /\ summary_content' = None
    /\ provider_calls' = 0
    /\ sleeps' = <<>>
    /\ prev_summarized' = FALSE
    /\ UNCHANGED pc

\* clear_history()
ClearHistory ==
    /\ pc = "idle"
    /\ chat_history' = <<>>
    /\ call' = [NoCall EXCEPT !.op = "clear_history"]
    /\ ret' = NoReturn
    /\ pre_history' = chat_history
    /\ conversation_text' = None
    /\ model_summary' = None
    /\ summary_content' = None
    /\ provider_calls' = 0
    /\ sleeps' = <<>>
    /\ prev_summarized' = FALSE
    /\ UNCHANGED pc

\* The memory manager driven directly through its own methods.
Next ==
    \/ \E query \in Queries, context \in Contexts :
          PrepareContext(query, context) /\ UNCHANGED <<frame, outside>>
    \/ \E outcome \in Outcomes : SummarizeAttempt(outcome) /\ UNCHANGED <<frame, outside>>
    \/ \E query \in CommittedQueries, response \in Answers :
          AddExchange(query, response) /\ UNCHANGED <<frame, outside>>
    \/ ClearHistory /\ UNCHANGED <<frame, outside>>

Spec == Init /\ [][Next]_vars

\* ---------------------------------------------------------- provider adapters
\* query_with_groq, query_with_openai, query_with_gemini, query_with_deepseek.
AdapterProviders == {"groq", "openai", "gemini", "deepseek"}
\* The default of the adapters' max_retries parameter.
DEFAULT_MAX_RETRIES == 2
\* Values of max_retries a caller passes: none that lets the loop run, one
\* attempt only, the default.
RetryInputs == {-1, 0, DEFAULT_MAX_RETRIES}
\* The key process_query hands to an adapter: stripped and not empty.
AdapterKeys == {<<"k">>}
AdapterQueries == {<<"q">>, <<"qLong">>}

DisplayName(api_provider) ==
    CASE api_provider = "groq" -> "Groq"
      [] api_provider = "openai" -> "OpenAI"
      [] api_provider = "gemini" -> "Gemini"
      [] api_provider = "deepseek" -> "Deepseek"

OtherProviders(api_provider) ==
    CASE api_provider = "groq" -> "OpenAI, Gemini, or Deepseek"
      [] api_provider = "openai" -> "Groq, Gemini, or Deepseek"
      [] api_provider = "gemini" -> "Groq, OpenAI, or Deepseek"
      [] api_provider = "deepseek" -> "Groq, OpenAI, or Gemini"

StatusPageOwner(api_provider) ==
    IF api_provider = "gemini" THEN "Google" ELSE DisplayName(api_provider)

WARNING_SIGN == "[warning sign] "

\* The texts the except clauses return, cut at the places the provider's name
\* (or the exception's text, "e") is written in.
ServerErrorAdvisory(api_provider) ==
    <<WARNING_SIGN, "The ", DisplayName(api_provider),
      " API is currently experiencing issues (HTTP 500 Internal Server Error). This is a temporary server-side problem. Please try one of the following:\n\n1. Wait a few moments and try again\n2. ",
      "Switch to another LLM provider", " (", OtherProviders(api_provider),
      ") in API Settings\n3. Check ", StatusPageOwner(api_provider),
      "'s status page for updates">>

RateLimitAdvisory(api_provider) ==
    <<WARNING_SIGN, "Rate limit exceeded for ", DisplayName(api_provider),
      " API. Please wait a moment before trying again, or ",
      "switch to another LLM provider", " in API Settings.">>

ConnectionAdvisory(api_provider) ==
    <<WARNING_SIGN, "Failed to connect to ", DisplayName(api_provider),
      " API. Please check your internet connection and try again.">>

ApiErrorAdvisory(api_provider) ==
    <<WARNING_SIGN, DisplayName(api_provider), " API error: ", "e",
      ". Please try again or switch to another provider in API Settings.">>

UnexpectedAdvisory(api_provider) ==
    <<WARNING_SIGN, "Unexpected error with ", DisplayName(api_provider), ": ", "e">>

UnavailableAdvisory(api_provider) ==
    <<WARNING_SIGN, DisplayName(api_provider),
      " API is currently unavailable. Please try again later or ",
      "switch to another LLM provider", " in API Settings.">>

\* What a chat request can raise: the exception classes of the provider's
\* client library ("APIError": any other subclass of it, "Exception": anything
\* else).  Groq, OpenAI and Deepseek are reached through the openai classes,
\* Gemini through google.api_core's.
ChatRaised(api_provider) ==
    IF api_provider = "gemini"
    THEN {"InternalServerError", "ServiceUnavailable", "ResourceExhausted", "Exception"}
    ELSE {"InternalServerError", "RateLimitError", "APIConnectionError", "APIError",
          "Exception"}

ChatOutcomes(api_provider) ==
    [kind : {"response"}, text : Answers]
        \cup [kind : ChatRaised(api_provider), text : {None}]

AllChatOutcomes == UNION {ChatOutcomes(api_provider) : api_provider \in AdapterProviders}

\* The except clause of the adapter that catches an exception of this class.
ExceptClause(api_provider, kind) ==
    IF api_provider = "gemini"
    THEN CASE kind = "InternalServerError" -> "server_error"
           [] kind = "ResourceExhausted" -> "rate_limit"
           [] kind = "ServiceUnavailable" -> "unavailable"
           [] OTHER -> "unexpected"
    ELSE CASE kind = "InternalServerError" -> "server_error"
           [] kind = "RateLimitError" -> "rate_limit"
           [] kind = "APIConnectionError" -> "connection"
           [] kind = "APIError" -> "api_error"
           [] OTHER -> "unexpected"

\* Mutant of RetryingClause: the connection clause retries too.
RetryingClause_AlsoConnection(clause) ==
    clause \in {"server_error", "unavailable", "connection"}

\* The clauses that sleep and go round the loop while attempts remain.
RetryingClause(clause) == clause \in {"server_error", "unavailable"}

\* Mutant of ClauseAdvisory: every clause returns the generic text.
ClauseAdvisory_Generic(api_provider, clause) == UnexpectedAdvisory(api_provider)

\* What a clause returns when it returns.
ClauseAdvisory(api_provider, clause) ==
    CASE clause = "server_error" -> ServerErrorAdvisory(api_provider)
      [] clause = "rate_limit" -> RateLimitAdvisory(api_provider)
      [] clause = "connection" -> ConnectionAdvisory(api_provider)
      [] clause = "api_error" -> ApiErrorAdvisory(api_provider)
      [] clause = "unavailable" -> UnavailableAdvisory(api_provider)
      [] OTHER -> UnexpectedAdvisory(api_provider)

\* Mutant of wait_time: twice the attempt number.
wait_time_Doubled(attempt) == 2 * attempt

\* wait_time = 2 ** attempt
wait_time(attempt) == Pow2(attempt)

\* return value
Returned(f, value) == [f EXCEPT !.stage = "returned", !.result = value]

\* for attempt in range(max_retries + 1): the body runs only if the range is
\* not empty; a function that runs off its end returns None.
EnterLoop(f) ==
    IF 0 < f.retries + 1 THEN [f EXCEPT !.stage = "chatting"] ELSE Returned(f, None)

\* Mutant of AfterPrepare: the error is not looked at.
AfterPrepare_IgnoresError(f, position, prepared) ==
    IF position = "summarizing" THEN [f EXCEPT !.stage = "preparing"]
    ELSE EnterLoop(f)

\* The adapter after its call of prepare_context: still inside it (the
\* summarizing loop), or returning its error, or at the retry loop.
AfterPrepare(f, position, prepared) ==
    IF position = "summarizing" THEN [f EXCEPT !.stage = "preparing"]
    ELSE IF prepared.error # NoError THEN Returned(f, <<prepared.error>>)
    ELSE EnterLoop(f)

\* The frame of a call that begins now.
NewFrame(entry, api_provider, query, context) ==
    [NoFrame EXCEPT !.entry = entry, !.api_provider = api_provider,
                    !.query = query, !.context = context,
                    !.entry_history = chat_history]

\* The adapter f.api_provider, called with f's query and context, this key
\* and f.retries, from its first line to its return or to its first wait for
\* a provider.
AdapterCall(f, api_key) ==
    /\ PrepareCall(f.query, f.context, {f.api_provider}, {api_key})
    /\ frame' = AfterPrepare([f EXCEPT !.prepared = TRUE, !.api_key = api_key], pc', ret')

\* query_with_<provider>(query, context, api_key, max_retries) called directly.
QueryWith(api_provider, query, context, api_key, retries) ==
    /\ frame.stage = "none"
    /\ Len(chat_history) <= MaxQueryHist
    /\ AdapterCall([NewFrame("adapter", api_provider, query, context)
                       EXCEPT !.retries = retries,
                              !.api_keys[api_provider] = api_key],
                   api_key)

\* One request of the summarizing loop inside the adapter's prepare_context.
AdapterSummarizeAttempt(outcome) ==
    /\ frame.stage = "preparing"
    /\ SummarizeAttempt(outcome)
    /\ frame' = AfterPrepare(frame, pc', ret')

\* Mutant of ChatAttempt: the final USER message, context and all, is committed.
ChatAttempt_CommitsFinalMessage(outcome) ==
    /\ frame.stage = "chatting"
    /\ outcome.kind = "response" \/ outcome.kind \in ChatRaised(frame.api_provider)
    /\ outcome.text = <<"aB">> => BigAnswers(chat_history) < MaxBig
    /\ LET f == [frame EXCEPT !.attempts = Append(@, outcome.kind)]
           clause == ExceptClause(frame.api_provider, outcome.kind)
       IN IF outcome.kind = "response"
          THEN /\ chat_history' = add_exchange(chat_history,
                                   FinalUserMessage(frame.context, frame.query).content,
                                   outcome.text)
               /\ frame' = Returned([f EXCEPT !.added = @ + 1], outcome.text)
          ELSE IF RetryingClause(clause) /\ frame.attempt < frame.retries
          THEN /\ frame' = [f EXCEPT !.chat_sleeps = Append(@, wait_time(frame.attempt)),
                                     !.attempt = @ + 1]
               /\ UNCHANGED chat_history
          ELSE /\ frame' = Returned(f, ClauseAdvisory(frame.api_provider, clause))
               /\ UNCHANGED chat_history
    /\ UNCHANGED <<pc, call, ret, pre_history, conversation_text, model_summary,
                   summary_content, provider_calls, sleeps, prev_summarized>>

\* One pass of the adapter's retry loop: the chat request and its outcome.
ChatAttempt(outcome) ==
    /\ frame.stage = "chatting"
    /\ outcome.kind = "response" \/ outcome.kind \in ChatRaised(frame.api_provider)
    /\ outcome.text = <<"aB">> => BigAnswers(chat_history) < MaxBig
    /\ LET f == [frame EXCEPT !.attempts = Append(@, outcome.kind)]
           clause == ExceptClause(frame.api_provider, outcome.kind)
       IN IF outcome.kind = "response"
          THEN /\ chat_history' = add_exchange(chat_history, frame.query, outcome.text)
               /\ frame' = Returned([f EXCEPT !.added = @ + 1], outcome.text)
          ELSE IF RetryingClause(clause) /\ frame.attempt < frame.retries
          THEN /\ frame' = [f EXCEPT !.chat_sleeps = Append(@, wait_time(frame.attempt)),
                                     !.attempt = @ + 1]
               /\ UNCHANGED chat_history
          ELSE /\ frame' = Returned(f, ClauseAdvisory(frame.api_provider, clause))
               /\ UNCHANGED chat_history
    /\ UNCHANGED <<pc, call, ret, pre_history, conversation_text, model_summary,
                   summary_content, provider_calls, sleeps, prev_summarized>>

\* The caller has the return value; the call's locals are gone.
Deliver ==
    /\ frame.stage = "returned"
    /\ frame' = NoFrame
    /\ call' = NoCall
    /\ ret' = NoReturn
    /\ pre_history' = <<>>
    /\ conversation_text' = None
    /\ model_summary' = None
    /\ summary_content' = None
    /\ provider_calls' = 0
    /\ sleeps' = <<>>
    /\ prev_summarized' = FALSE
    /\ UNCHANGED <<chat_history, pc>>

\* clear_chat_memory() between two queries.
ClearChat ==
    /\ frame.stage = "none"
    /\ ClearHistory
    /\ UNCHANGED frame

\* The adapters called one query after the other, with clear_chat_memory in
\* between.
NextAdapter ==
    \/ \E api_provider \in AdapterProviders, query \in AdapterQueries,
          context \in Contexts, api_key \in AdapterKeys, retries \in RetryInputs :
          QueryWith(api_provider, query, context, api_key, retries) /\ UNCHANGED outside
    \/ \E outcome \in Outcomes : AdapterSummarizeAttempt(outcome) /\ UNCHANGED outside
    \/ \E outcome \in AllChatOutcomes : ChatAttempt(outcome) /\ UNCHANGED outside
    \/ Deliver /\ UNCHANGED outside
    \/ ClearChat /\ UNCHANGED outside

SpecAdapter == Init /\ [][NextAdapter]_vars

\* Long answers: two of them outgrow the token limit.  A context of medium
\* size, and what a chat request does in the runs that build such histories.
LongAnswers == {<<"aS">>, <<"aH">>}
MediumContexts == {<<"cM">>}
LongChatOutcomes ==
    [kind : {"response"}, text : LongAnswers]
        \cup [kind : {"InternalServerError", "Exception"}, text : {None}]

\* The adapters with their default max_retries, answered at length.
NextLong ==
    \/ \E api_provider \in AdapterProviders, query \in AdapterQueries,
          context \in MediumContexts, api_key \in AdapterKeys :
          QueryWith(api_provider, query, context, api_key, DEFAULT_MAX_RETRIES) /\ UNCHANGED outside
    \/ \E outcome \in Outcomes : AdapterSummarizeAttempt(outcome) /\ UNCHANGED outside
    \/ \E outcome \in LongChatOutcomes : ChatAttempt(outcome) /\ UNCHANGED outside
    \/ Deliver /\ UNCHANGED outside
    \/ ClearChat /\ UNCHANGED outside

SpecLong == Init /\ [][NextLong]_vars

\* ------------------------------------------- query_documents, process_query
\* Distances are in thousandths; the gate's 0.7.
RELEVANCE_CEILING == 700
FALLBACK_SENTENCE == "I don't have enough information to answer this question."
NO_RELEVANT == "No relevant information found in the documents."

\* What the index returns for a query, best match first: the chunks with their
\* sources and distances.  Nothing (an empty index); the best within the
\* ceiling and the last beyond it; the best exactly at the ceiling; the best
\* just beyond it; a large chunk.
SearchResults ==
    {<<>>,
     <<[doc |-> "d1", source |-> "a.pdf", distance |-> 300],
       [doc |-> "d2", source |-> "b.txt", distance |-> 500],
       [doc |-> "d3", source |-> "a.pdf", distance |-> 900]>>,
     <<[doc |-> "d1", source |-> "a.pdf", distance |-> 700]>>,
     <<[doc |-> "d2", source |-> "b.txt", distance |-> 701],
       [doc |-> "d3", source |-> "a.pdf", distance |-> 900]>>,
     <<[doc |-> "dB", source |-> "b.txt", distance |-> 100],
       [doc |-> "d1", source |-> "a.pdf", distance |-> 800]>>}

\* The keys a request carries, one per provider.
KeyConfigs ==
    {[p \in AdapterProviders |-> k] : k \in KeyInputs}
        \cup {[p \in AdapterProviders |-> IF p = only THEN <<" ", "k", " ">> ELSE None] :
                 only \in {"groq", "gemini"}}

\* results.get("distances", [[]])[0]
Distances(results) == [i \in 1..Len(results) |-> results[i].distance]

RECURSIVE Min(_)
Min(numbers) ==
    IF Len(numbers) = 1 THEN numbers[1]
    ELSE LET rest == Min(Tail(numbers))
         IN IF numbers[1] <= rest THEN numbers[1] ELSE rest

\* Mutant of Filtered: the ceiling itself is filtered too.
Filtered_AtCeiling(results) ==
    Distances(results) = <<>> \/ Min(Distances(results)) >= RELEVANCE_CEILING

\* if not distances or min(distances) > 0.7
Filtered(results) ==
    Distances(results) = <<>> \/ Min(Distances(results)) > RELEVANCE_CEILING

\* The lines format_search_results writes for the chunks from the i-th on.
RECURSIVE FormattedFrom(_, _)
FormattedFrom(results, i) ==
    IF i > Len(results) THEN <<>>
    ELSE <<"Source ", ToString(i), ": ", results[i].source, "\n",
           "Content:\n", results[i].doc, "\n\n">> \o FormattedFrom(results, i + 1)

\* Mutant of format_search_results: only the chunks within the ceiling.
format_search_results_WithinCeiling(results) ==
    IF results = <<>> THEN <<NO_RELEVANT>>
    ELSE <<"Relevant findings:\n\n">>
            \o FormattedFrom(SelectSeq(results, LAMBDA r : r.distance <= RELEVANCE_CEILING), 1)

format_search_results(results) ==
    IF results = <<>> THEN <<NO_RELEVANT>>
    ELSE <<"Relevant findings:\n\n">> \o FormattedFrom(results, 1)

\* api_provider.upper()
Upper(api_provider) ==
    CASE api_provider = "groq" -> "GROQ"
      [] api_provider = "openai" -> "OPENAI"
      [] api_provider = "gemini" -> "GEMINI"
      [] api_provider = "deepseek" -> "DEEPSEEK"

KeyNotConfigured(api_provider) ==
    <<"Error: ", Upper(api_provider),
      " API key not configured. Please provide your API key in the API Settings.">>

UnknownProvider(api_provider) ==
    <<"Error: ", "Unknown API provider '", api_provider,
      "'. Please select a valid provider.">>

\* A return that touches nothing of the memory manager.
ReturnNow(f, value) ==
    /\ frame' = Returned(f, value)
    /\ UNCHANGED <<chat_history, pc, call, ret, pre_history, conversation_text,
                   model_summary, summary_content, provider_calls, sleeps,
                   prev_summarized>>

\* Mutant of HasKey: a key of blanks counts.
HasKey_NoStrip(user_key) == Truthy(user_key)

\* if not api_key, on what APIKeyManager.get_<provider>_key returned
HasKey(user_key) == Truthy(get_key(user_key))

\* Mutant of ProcessCall: without a key in the request the saved key is used.
ProcessCall_SavedKey(f) ==
    IF f.context = <<NO_RELEVANT>>
    THEN ReturnNow(f, <<FALLBACK_SENTENCE>>)
    ELSE IF f.api_provider \in AdapterProviders
    THEN IF HasKey(f.api_keys[f.api_provider])
         THEN AdapterCall([f EXCEPT !.retries = DEFAULT_MAX_RETRIES],
                          get_key(f.api_keys[f.api_provider]))
         ELSE IF HasKey(key_store.api_keys[f.api_provider])
         THEN AdapterCall([f EXCEPT !.retries = DEFAULT_MAX_RETRIES],
                          get_key(key_store.api_keys[f.api_provider]))
         ELSE ReturnNow(f, KeyNotConfigured(f.api_provider))
    ELSE ReturnNow(f, UnknownProvider(f.api_provider))

\* Mutant of ProcessCall: the adapters are given two retries more.
ProcessCall_MoreRetries(f) ==
    IF f.context = <<NO_RELEVANT>>
    THEN ReturnNow(f, <<FALLBACK_SENTENCE>>)
    ELSE IF f.api_provider \in AdapterProviders
    THEN IF ~HasKey(f.api_keys[f.api_provider])
         THEN ReturnNow(f, KeyNotConfigured(f.api_provider))
         ELSE AdapterCall([f EXCEPT !.retries = DEFAULT_MAX_RETRIES + 2],
                          get_key(f.api_keys[f.api_provider]))
    ELSE ReturnNow(f, UnknownProvider(f.api_provider))

\* process_query on f's query, context, provider and keys.
ProcessCall(f) ==
    IF f.context = <<NO_RELEVANT>>
    THEN ReturnNow(f, <<FALLBACK_SENTENCE>>)
    ELSE IF f.api_provider \in AdapterProviders
    THEN IF ~HasKey(f.api_keys[f.api_provider])
         THEN ReturnNow(f, KeyNotConfigured(f.api_provider))
         ELSE AdapterCall([f EXCEPT !.retries = DEFAULT_MAX_RETRIES],
                          get_key(f.api_keys[f.api_provider]))
    ELSE ReturnNow(f, UnknownProvider(f.api_provider))

\* process_query(query, context, api_provider, api_key_groq, ...) called
\* directly.
ProcessQuery(query, context, api_provider, api_keys) ==
    /\ frame.stage = "none"
    /\ Len(chat_history) <= MaxQueryHist
    /\ ProcessCall([NewFrame("process_query", api_provider, query, context)
                       EXCEPT !.api_keys = api_keys])

\* query_documents(query, n_results, api_provider, api_key_groq, ...); results
\* is what search_documents returns.
QueryDocuments(query, results, api_provider, api_keys) ==
    /\ frame.stage = "none"
    /\ Len(chat_history) <= MaxQueryHist
    /\ LET f == [NewFrame("query_documents", api_provider, query, <<>>)
                    EXCEPT !.results = results, !.api_keys = api_keys]
       IN IF Filtered(results)
          THEN ReturnNow(f, <<FALLBACK_SENTENCE>>)
          ELSE ProcessCall([f EXCEPT !.context = format_search_results(results)])

\* The contexts process_query is handed when called directly: what
\* format_search_results makes of no chunk and of one chunk.
DirectContexts ==
    {format_search_results(results) : results \in {r \in SearchResults : Len(r) <= 1}}

\* Queries through query_documents and process_query, one after the other,
\* with clear_chat_memory in between.
NextQuery ==
    \/ \E query \in AdapterQueries, results \in SearchResults,
          api_provider \in Providers, api_keys \in KeyConfigs :
          QueryDocuments(query, results, api_provider, api_keys) /\ UNCHANGED outside
    \/ \E query \in CommittedQueries, context \in DirectContexts,
          api_provider \in Providers, api_keys \in KeyConfigs :
          ProcessQuery(query, context, api_provider, api_keys) /\ UNCHANGED outside
    \/ \E outcome \in Outcomes : AdapterSummarizeAttempt(outcome) /\ UNCHANGED outside
    \/ \E outcome \in AllChatOutcomes : ChatAttempt(outcome) /\ UNCHANGED outside
    \/ Deliver /\ UNCHANGED outside
    \/ ClearChat /\ UNCHANGED outside

SpecQuery == Init /\ [][NextQuery]_vars

\* -------------------------------------------------- count_tokens, called
\* A special token of the cl100k_base encoding, as text.
SPECIAL_TOKEN == "<|endoftext|>"

\* Texts handed to count_tokens.
TokenTexts ==
    {<<>>, <<"q">>, <<" ">>, <<"q", "aS">>, <<"aB", "q", "aB">>,
     <<SPECIAL_TOKEN>>, <<"q", SPECIAL_TOKEN, "aS">>}

\* self.encoding.encode(text), with the encoder's defaults, raises ValueError
\* on a text that holds a special token.
encode_raises(text) == \E i \in 1..Len(text) : text[i] = SPECIAL_TOKEN

\* count_tokens(text), while api_provider is the provider the user selected.
CountTokens(text, api_provider) ==
    /\ pc = "idle"
    /\ frame.stage \in {"none", "returned", "raised"}
    /\ frame' = [NoFrame EXCEPT !.entry = "count_tokens", !.query = text,
                                !.api_provider = api_provider,
                                !.entry_history = chat_history,
                                !.stage = IF encode_raises(text) THEN "raised"
                                          ELSE "returned",
                                !.count = IF encode_raises(text) THEN 0
                                          ELSE count_tokens(text)]
    /\ UNCHANGED <<chat_history, pc, call, ret, pre_history, conversation_text,
                   model_summary, summary_content, provider_calls, sleeps,
                   prev_summarized>>

\* count_tokens called between the operations that change the history.
NextTokens ==
    \/ \E text \in TokenTexts, api_provider \in Providers :
          CountTokens(text, api_provider) /\ UNCHANGED outside
    \/ \E query \in CommittedQueries, response \in Answers :
          AddExchange(query, response) /\ frame' = NoFrame /\ UNCHANGED outside
    \/ ClearHistory /\ frame' = NoFrame /\ UNCHANGED outside

SpecTokens == Init /\ [][NextTokens]_vars





\* ---------------------------------------------------------------- documents
\* config.py: CHUNK_SIZE, CHUNK_OVERLAP, MIN_CHUNK_SIZE, in characters.
CHUNK_SIZE == 512
CHUNK_OVERLAP == 50
MIN_CHUNK_SIZE == 100

\* A document text is a sequence of sentences with the white space between
\* them left out, or white space only.  len() of a sentence.
CharsOf(sentence) ==
    CASE sentence = "s40" -> 40
      [] sentence = "s300" -> 300
      [] sentence = "s300b" -> 300
      [] sentence = "s200" -> 200
      [] OTHER -> 1

\* len(" ".join(sentences))
RECURSIVE JoinedChars(_)
JoinedChars(sentences) ==
    IF sentences = <<>> THEN 0
    ELSE IF Len(sentences) = 1 THEN CharsOf(sentences[1])
    ELSE CharsOf(sentences[1]) + 1 + JoinedChars(Tail(sentences))

\* SentenceChunkingStrategy.chunk_text, the grouping loop: the chunks made of
\* the sentences left, current_chunk and current_size.
RECURSIVE GroupSentences(_, _, _)
GroupSentences(sentences, current_chunk, current_size) ==
    IF sentences = <<>>
    THEN IF current_chunk # <<>> THEN <<current_chunk>> ELSE <<>>
    ELSE LET sentence == Head(sentences)
             sentence_size == CharsOf(sentence)
         IN IF current_size + sentence_size > CHUNK_SIZE /\ current_chunk # <<>>
            THEN <<current_chunk>>
                    \o GroupSentences(Tail(sentences), <<sentence>>, sentence_size)
            ELSE GroupSentences(Tail(sentences), Append(current_chunk, sentence),
                                current_size + sentence_size + 1)

\* A chunk with the overlap it carries: before stands for the last
\* CHUNK_OVERLAP characters of the chunk before it, after for the first
\* CHUNK_OVERLAP characters of the chunk after it.
Overlapped(before, body, after) == [before |-> before, body |-> body, after |-> after]

\* ChunkingStrategy._apply_overlap
apply_overlap(chunks) ==
    IF Len(chunks) <= 1 \/ CHUNK_OVERLAP <= 0
    THEN [i \in 1..Len(chunks) |-> Overlapped(<<>>, chunks[i], <<>>)]
    ELSE [i \in 1..Len(chunks) |->
             Overlapped(IF i = 1 THEN <<>> ELSE chunks[i - 1],
                        chunks[i],
                        IF i = Len(chunks) THEN <<>> ELSE chunks[i + 1])]

\* SentenceChunkingStrategy.chunk_text
chunk_text(text) ==
    LET sentences == SelectSeq(text, LAMBDA s : ~IsSpace(s))
    IN IF sentences = <<>> THEN <<Overlapped(<<>>, text, <<>>)>>
       ELSE apply_overlap(GroupSentences(sentences, <<>>, 0))

\* len(chunk.strip())
ChunkChars(chunk) ==
    (IF chunk.before = <<>> THEN 0
     ELSE Min(<<CHUNK_OVERLAP, JoinedChars(chunk.before)>>) + 1)
        + JoinedChars(Strip(chunk.body))
        + (IF chunk.after = <<>> THEN 0
           ELSE 1 + Min(<<CHUNK_OVERLAP, JoinedChars(chunk.after)>>))

\* The chunk as text.
ChunkText(chunk) ==
    (IF chunk.before = <<>> THEN <<>>
     ELSE <<"[-50:] of ">> \o chunk.before \o <<" ">>)
        \o Join(" ", [i \in 1..Len(chunk.body) |-> <<chunk.body[i]>>])
        \o (IF chunk.after = <<>> THEN <<>>
            ELSE <<" ", "[:50] of ">> \o chunk.after)

\* Mutant of chunk_document: total_chunks is counted before the filter.
chunk_document_CountsUnfiltered(text) ==
    IF Strip(text) = <<>> THEN <<>>
    ELSE LET kept == SelectSeq(chunk_text(text),
                               LAMBDA chunk : ChunkChars(chunk) >= MIN_CHUNK_SIZE)
             text_chunks == IF kept = <<>> THEN <<text>>
                            ELSE [i \in 1..Len(kept) |-> ChunkText(kept[i])]
         IN [i \in 1..Len(text_chunks) |->
                [text |-> text_chunks[i], chunk_index |-> i - 1,
                 total_chunks |-> Len(chunk_text(text))]]

\* ChunkingStrategy.chunk_document: the chunks of one document, each with its
\* chunk_index and total_chunks.
chunk_document(text) ==
    IF Strip(text) = <<>> THEN <<>>
    ELSE LET kept == SelectSeq(chunk_text(text),
                               LAMBDA chunk : ChunkChars(chunk) >= MIN_CHUNK_SIZE)
             text_chunks == IF kept = <<>> THEN <<text>>
                            ELSE [i \in 1..Len(kept) |-> ChunkText(kept[i])]
         IN [i \in 1..Len(text_chunks) |->
                [text |-> text_chunks[i], chunk_index |-> i - 1,
                 total_chunks |-> Len(text_chunks)]]

\* RAGSystem._apply_chunking
RECURSIVE apply_chunking(_)
apply_chunking(documents) ==
    IF documents = <<>> THEN <<>>
    ELSE (IF Strip(Head(documents)) = <<>> THEN <<>>
          ELSE chunk_document(Head(documents)))
            \o apply_chunking(Tail(documents))

\* hashlib.sha256(text.encode('utf-8')).hexdigest()[:16]: equal texts have
\* equal digests, and the texts of the model have digests of their own.
text_hash(text) == <<"sha256">> \o text

\* Mutant of ExistingNames: no name counts as taken.
ExistingNames_None(stored) == {}

\* Mutant of generate_doc_id: the id also counts the chunks already stored.
generate_doc_id_Counting(filename, text, chunk_index) ==
    [filename |-> filename, chunk_index |-> chunk_index + Len(collection),
     text_hash |-> text_hash(text)]

\* RAGSystem._generate_doc_id: f"{filename}_chunk_{chunk_index}_{text_hash}"
generate_doc_id(filename, text, chunk_index) ==
    [filename |-> filename, chunk_index |-> chunk_index, text_hash |-> text_hash(text)]

\* The uploaded files: filename, and the documents SimpleDirectoryReader loads
\* from the bytes (one per page of a PDF).
Files ==
    {[filename |-> "blank.txt", documents |-> <<<<" ", "\n">>>>],
     [filename |-> "note.txt", documents |-> <<<<"s40">>>>],
     [filename |-> "note.txt", documents |-> <<<<"s300">>>>],
     [filename |-> "long.txt", documents |-> <<<<"s300", "s40", "s300b">>>>],
     [filename |-> "scan.pdf", documents |-> <<<<"s300">>, <<"s300">>>>]}

\* The filenames in the order sort(key=name) puts them.
Filenames == <<"blank.txt", "long.txt", "note.txt", "scan.pdf">>

\* The records upload_document hands to collection.add for a file.
Batch(file) ==
    LET chunked_documents == apply_chunking(file.documents)
    IN [i \in 1..Len(chunked_documents) |->
           [id |-> generate_doc_id(file.filename, chunked_documents[i].text,
                                   chunked_documents[i].chunk_index),
            document |-> chunked_documents[i].text,
            source |-> file.filename,
            upload_type |-> "user_upload"]]

Ids(records) == [i \in 1..Len(records) |-> records[i].id]

\* collection.add refuses a batch that holds an id twice.
DuplicateIds(records) ==
    \E i, j \in 1..Len(records) : i # j /\ records[i].id = records[j].id

\* RAGSystem.get_uploaded_documents: one entry per filename that has chunks,
\* sorted by name.
get_uploaded_documents(stored) ==
    LET Of(name) == SelectSeq(stored, LAMBDA r : r.upload_type = "user_upload"
                                                  /\ r.source = name)
        names == SelectSeq(Filenames, LAMBDA name : Of(name) # <<>>)
    IN [i \in 1..Len(names) |->
           [ids |-> Ids(Of(names[i])), name |-> names[i],
            chunks |-> Len(Of(names[i]))]]

ExistingNames(stored) ==
    {get_uploaded_documents(stored)[i].name :
        i \in 1..Len(get_uploaded_documents(stored))}

\* The ids delete_document may be called with: those of every chunk of every
\* file.
DocIds == UNION {{Batch(file)[i].id : i \in 1..Len(Batch(file))} : file \in Files}

NoId == [filename |-> "", chunk_index |-> 0, text_hash |-> <<>>]
NoDocument ==
    [op |-> "none", filename |-> "", documents |-> <<>>, doc_id |-> NoId, message |-> <<>>,
     success |-> FALSE, ids |-> <<>>, before |-> <<>>, listing |-> <<>>]

\* upload_document(file) through the upload endpoint; raises: reading the
\* file or the collection raises, which the except turns into a message.
UploadDocument(file, raises) ==
    LET batch == Batch(file)
        message ==
            IF file.filename \in ExistingNames(collection)
            THEN <<"Document '", file.filename, "' already exists. Upload cancelled.">>
            ELSE IF raises \/ DuplicateIds(batch)
            THEN <<"Error uploading document: ">>
            ELSE <<"Successfully uploaded and indexed ", file.filename, " (",
                   ToString(Len(batch)), " chunks)">>
        indexed == message[1] = "Successfully uploaded and indexed "
    IN /\ collection' = IF indexed THEN collection \o batch ELSE collection
       /\ last_doc' = [NoDocument EXCEPT !.op = "upload", !.filename = file.filename,
                                         !.documents = file.documents,
                                         !.message = message, !.success = indexed,
                                         !.ids = IF file.filename \in ExistingNames(collection)
                                                    \/ raises
                                                 THEN <<>> ELSE Ids(batch),
                                         !.before = get_uploaded_documents(collection)]
       /\ first_ids' =
             IF ~indexed THEN first_ids
             ELSE IF \A r \in first_ids : r.file # file
             THEN first_ids \cup {[file |-> file, ids |-> Ids(batch), again |-> FALSE]}
             ELSE {IF r.file = file THEN [r EXCEPT !.again = TRUE] ELSE r :
                      r \in first_ids}
       /\ UNCHANGED <<chat_history, memory, frame, key_store, threads, dropped, chunker>>

\* GET /api/documents
ListDocuments ==
    /\ last_doc' = [NoDocument EXCEPT !.op = "list",
                                      !.success = TRUE,
                                      !.before = get_uploaded_documents(collection),
                                      !.listing = get_uploaded_documents(collection)]
    /\ UNCHANGED <<collection, first_ids, chat_history, memory, frame, key_store,
                   threads, dropped, chunker>>

\* ChromaEmbeddingSearch.delete_document: collection.delete(ids=[doc_id])
Deleted(stored, doc_id) == SelectSeq(stored, LAMBDA r : r.id # doc_id)

\* delete_document(doc_id) through the delete endpoint.
DeleteDocument(doc_id) ==
    /\ collection' = Deleted(collection, doc_id)
    /\ last_doc' = [NoDocument EXCEPT !.op = "delete", !.doc_id = doc_id,
                                      !.message = <<"Document ", "doc_id",
                                                    " deleted successfully">>,
                                      !.success = TRUE,
                                      !.before = get_uploaded_documents(collection)]
    /\ UNCHANGED <<first_ids, chat_history, memory, frame, key_store, threads, dropped, chunker>>

\* clear_all_documents() through its endpoint.
ClearAllDocuments ==
    /\ collection' = <<>>
    /\ last_doc' = [NoDocument EXCEPT !.op = "clear_all",
                                      !.message =
                                          IF collection # <<>>
                                          THEN <<"Successfully cleared ",
                                                 ToString(Len(collection)),
                                                 " documents from ChromaDB">>
                                          ELSE <<"No documents found to clear">>,
                                      !.success = collection # <<>>,
                                      !.before = get_uploaded_documents(collection)]
    /\ UNCHANGED <<first_ids, chat_history, memory, frame, key_store, threads, dropped, chunker>>

\* The document endpoints, called one after the other.
NextDocuments ==
    \/ \E file \in Files, raises \in BOOLEAN : UploadDocument(file, raises)
    \/ ListDocuments
    \/ \E doc_id \in DocIds : DeleteDocument(doc_id)
    \/ ClearAllDocuments

SpecDocuments == Init /\ [][NextDocuments]_vars

\* ---------------------------------------------------------------- key store
\* What the key endpoints are called with.
SavedKeys == {<<>>, <<"kS">>}
StoreProviders == {"groq", "gemini", "mistral"}

\* APIKeyManager.save_api_key through POST /api/keys/save
SaveApiKey(provider, api_key) ==
    /\ frame.stage = "none"
    /\ key_store' = IF provider \in DOMAIN key_store.api_keys
                    THEN [key_store EXCEPT !.api_keys[provider] = api_key]
                    ELSE key_store
    /\ UNCHANGED <<chat_history, memory, frame, collection, last_doc, first_ids,
                   threads, dropped, chunker>>

\* APIKeyManager.save_selected_provider through POST /api/keys/provider/set
SaveSelectedProvider(provider) ==
    /\ frame.stage = "none"
    /\ key_store' = IF provider \in DOMAIN key_store.api_keys
                    THEN [key_store EXCEPT !.selected_provider = provider]
                    ELSE key_store
    /\ UNCHANGED <<chat_history, memory, frame, collection, last_doc, first_ids,
                   threads, dropped, chunker>>

\* The requests of the query endpoint: one question, with a key for every
\* provider, for none, or blanks; a search that finds one large chunk.
RequestKeys == {[p \in AdapterProviders |-> k] : k \in KeyInputs}
RequestProviders == {"groq", "gemini"}
RequestResults ==
    {<<[doc |-> "dB", source |-> "b.txt", distance |-> 100],
       [doc |-> "d1", source |-> "a.pdf", distance |-> 800]>>}
RequestChatOutcomes ==
    [kind : {"response"}, text : {<<"aS">>}] \cup [kind : {"Exception"}, text : {None}]
RequestSummaryOutcomes ==
    [kind : {"response"}, text : {<<" ", "S", " ">>}]
        \cup [kind : {"InternalServerError"}, text : {None}]

\* The query endpoint and the key endpoints, called one after the other.
NextKeys ==
    \/ \E provider \in StoreProviders, api_key \in SavedKeys :
          SaveApiKey(provider, api_key)
    \/ \E provider \in StoreProviders : SaveSelectedProvider(provider)
    \/ \E query \in CommittedQueries, results \in RequestResults,
          api_provider \in RequestProviders, api_keys \in RequestKeys :
          QueryDocuments(query, results, api_provider, api_keys) /\ UNCHANGED outside
    \/ \E outcome \in RequestSummaryOutcomes :
          AdapterSummarizeAttempt(outcome) /\ UNCHANGED outside
    \/ \E outcome \in RequestChatOutcomes : ChatAttempt(outcome) /\ UNCHANGED outside
    \/ Deliver /\ UNCHANGED outside

SpecKeys == Init /\ [][NextKeys]_vars

\* ------------------------------------------------- queries on two threads
\* What the queries of the threads are made of.
ThreadContexts == {<<"cB">>}
ThreadSummaries == {None, <<"S">>}
ThreadChatOutcomes ==
    [kind : {"response"}, text : {<<"aS">>}] \cup [kind : {"Exception"}, text : {None}]

\* The messages of a history numbered from the first message ever added.
Numbers(history) == (dropped + 1)..(dropped + Len(history))

\* Lines 186-214 on the history as it is now; the adapter returns on an error
\* and goes on to its chat request otherwise.
ThreadAfterPrepare(thread, history, needs_summarization) ==
    LET messages == AssembleMessages(SYSTEM_PROMPT, thread.summary_content, history,
                                     thread.context, thread.query)
    IN IF FinalResult(messages, needs_summarization).error # NoError
       THEN [thread EXCEPT !.at = "idle"]
       ELSE [thread EXCEPT !.at = "chatting"]

\* A query begins on thread t: the adapter calls prepare_context, which runs
\* to its return or, with needs_summarization, reads chat_history[:-6] (line
\* 174) and waits for summarize_messages.
ThreadBegin(t, query, context) ==
    /\ threads[t].at = "idle"
    /\ Len(chat_history) <= MaxThreadHist
    /\ dropped <= MaxDropped
    /\ LET thread == [NoThread EXCEPT !.query = query, !.context = context]
       IN threads' =
             [threads EXCEPT ![t] =
                 IF QuestionTooLong(query) THEN thread
                 ELSE IF NeedsSummarization(chat_history, query, SYSTEM_PROMPT, context)
                 THEN [thread EXCEPT
                          !.at = "summarizing",
                          !.messages_to_summarize = MessagesToSummarize(chat_history),
                          !.older = Numbers(MessagesToSummarize(chat_history))]
                 ELSE ThreadAfterPrepare(thread, chat_history, FALSE)]
    /\ UNCHANGED <<chat_history, dropped, memory, frame, collection, last_doc,
                   first_ids, key_store, chunker>>

\* summarize_messages returns to thread t (lines 176-178).
ThreadSummarized(t, summary) ==
    /\ threads[t].at = "summarizing"
    /\ threads' = [threads EXCEPT
                      ![t].at = "truncating",
                      ![t].summary_content =
                          summarize_messages(threads[t].messages_to_summarize, summary)]
    /\ UNCHANGED <<chat_history, dropped, memory, frame, collection, last_doc,
                   first_ids, key_store, chunker>>

\* Thread t at line 184, self.chat_history = self.chat_history[-6:], and on to
\* prepare_context's return.
ThreadTruncate(t) ==
    /\ threads[t].at = "truncating"
    /\ chat_history' = TruncatedHistory(chat_history, threads[t].summary_content)
    /\ dropped' = dropped + (Len(chat_history) - Len(chat_history'))
    /\ threads' = [threads EXCEPT
                      ![t] = ThreadAfterPrepare(
                                [threads[t] EXCEPT
                                    !.removed = (dropped + 1)..dropped']
                                , chat_history', TRUE)]
    /\ UNCHANGED <<memory, frame, collection, last_doc, first_ids, key_store, chunker>>

\* The chat request of thread t is answered: add_exchange begins with
\* add_message(USER, query); or the request fails and the adapter returns.
ThreadChat(t, outcome) ==
    /\ threads[t].at = "chatting"
    /\ IF outcome.kind = "response"
       THEN /\ chat_history' = add_message(chat_history, USER, threads[t].query)
            /\ threads' = [threads EXCEPT ![t].at = "adding",
                                          ![t].response = outcome.text]
       ELSE /\ threads' = [threads EXCEPT ![t] = NoThread]
            /\ UNCHANGED chat_history
    /\ UNCHANGED <<dropped, memory, frame, collection, last_doc, first_ids, key_store, chunker>>

\* add_exchange on thread t ends with add_message(ASSISTANT, response).
ThreadAddResponse(t) ==
    /\ threads[t].at = "adding"
    /\ chat_history' = add_message(chat_history, ASSISTANT, threads[t].response)
    /\ threads' = [threads EXCEPT ![t] = NoThread]
    /\ UNCHANGED <<dropped, memory, frame, collection, last_doc, first_ids, key_store, chunker>>

\* Two threads serve queries on the one memory_manager.
NextThreads ==
    \/ \E t \in Threads, query \in CommittedQueries, context \in ThreadContexts :
          ThreadBegin(t, query, context)
    \/ \E t \in Threads, summary \in ThreadSummaries : ThreadSummarized(t, summary)
    \/ \E t \in Threads : ThreadTruncate(t)
    \/ \E t \in Threads, outcome \in ThreadChatOutcomes : ThreadChat(t, outcome)
    \/ \E t \in Threads : ThreadAddResponse(t)

SpecThreads == Init /\ [][NextThreads]_vars

\* ----------------------------------------------------------------- chunking
\* Document texts: sentences and white space.
SentenceTexts ==
    UNION {[1..k -> {"s40", "s200", "s300", "s300b", " "}] : k \in 0..MaxSentences}

\* Texts for the fixed-size chunker, character by character; " " is the
\* separator of the configuration.
CharTexts == UNION {[1..k -> {"x", " "}] : k \in 0..MaxChars}

\* The configurations with 0 <= chunk_overlap < chunk_size and
\* chunk_overlap <= min_chunk_size.
FixedConfigs ==
    {c \in [chunk_size : 1..MaxChunkSize, chunk_overlap : 0..MaxChunkSize,
            min_chunk_size : 0..MaxChunkSize] :
        c.chunk_overlap < c.chunk_size /\ c.chunk_overlap <= c.min_chunk_size}

\* chunk_document(document) on a document with this text.
ChunkDocument(text) ==
    /\ chunker = NoChunking
    /\ chunker' = [NoChunking EXCEPT !.op = "chunk_document", !.text = text,
                                     !.chunks = chunk_document(text)]
    /\ UNCHANGED <<chat_history, memory, frame, collection, last_doc, first_ids,
                   key_store, threads, dropped>>

\* text[lo:hi] for 0 <= lo
Slice(text, lo, hi) ==
    SubSeq(text, lo + 1, IF hi < Len(text) THEN hi ELSE Len(text))

\* chunk.rfind(" ")
rfind(chunk) ==
    IF \E k \in 1..Len(chunk) : chunk[k] = " "
    THEN (CHOOSE k \in 1..Len(chunk) :
             chunk[k] = " " /\ \A n \in (k + 1)..Len(chunk) : chunk[n] # " ") - 1
    ELSE -1

\* Mutant of NextStart: the overlap is taken off twice.
NextStart_TwiceOverlap(end, chunk_overlap) == end - 2 * chunk_overlap

\* start = end - self.config.chunk_overlap
NextStart(end, chunk_overlap) == end - chunk_overlap

\* FixedChunkingStrategy.chunk_text(text), up to its loop.
FixedBegin(text, config) ==
    /\ chunker = NoChunking
    /\ chunker' =
          IF Len(text) <= config.chunk_size
          THEN [NoChunking EXCEPT !.op = "fixed", !.text = text,
                                  !.chunk_size = config.chunk_size,
                                  !.chunk_overlap = config.chunk_overlap,
                                  !.min_chunk_size = config.min_chunk_size,
                                  !.spans = <<[from |-> 0, to |-> Len(text)]>>,
                                  !.chunks = <<text>>]
          ELSE [NoChunking EXCEPT !.op = "fixed", !.text = text,
                                  !.chunk_size = config.chunk_size,
                                  !.chunk_overlap = config.chunk_overlap,
                                  !.min_chunk_size = config.min_chunk_size,
                                  !.at = "loop"]
    /\ UNCHANGED <<chat_history, memory, frame, collection, last_doc, first_ids,
                   key_store, threads, dropped>>

\* The loop test and, if it holds, one pass of the loop body.
FixedIterate ==
    /\ chunker.at = "loop"
    /\ IF ~(chunker.start < Len(chunker.text))
       THEN chunker' = [chunker EXCEPT !.at = "returned"]
       ELSE LET start == chunker.start
                whole_end == start + chunker.chunk_size
                whole == Slice(chunker.text, start, whole_end)
                last_separator == rfind(whole)
                breaks == /\ whole_end < Len(chunker.text)
                          /\ last_separator > start + chunker.min_chunk_size
                chunk == IF breaks THEN Slice(whole, 0, last_separator) ELSE whole
                end == IF breaks THEN start + last_separator ELSE whole_end
            IN chunker' = [chunker EXCEPT
                              !.chunks = Append(@, chunk),
                              !.spans = Append(@, [from |-> start,
                                                   to |-> start + Len(chunk)]),
                              !.start = NextStart(end, chunker.chunk_overlap)]
    /\ UNCHANGED <<chat_history, memory, frame, collection, last_doc, first_ids,
                   key_store, threads, dropped>>

\* The caller has the chunks; the call's locals are gone.
TakeChunks ==
    /\ chunker.op # "none" /\ chunker.at = "returned"
    /\ chunker' = NoChunking
    /\ UNCHANGED <<chat_history, memory, frame, collection, last_doc, first_ids,
                   key_store, threads, dropped>>

\* The chunkers called on one text after the other.
NextChunking ==
    \/ \E text \in SentenceTexts : ChunkDocument(text)
    \/ \E text \in CharTexts, config \in FixedConfigs : FixedBegin(text, config)
    \/ FixedIterate
    \/ TakeChunks

SpecChunking == Init /\ [][NextChunking]_vars

\* ------------------------------------------------------------------- claims
\* What the claims speak of, stated from the call's arguments and the history
\* it found, independently of the operators above.
PrepareCalled == call.op = "prepare_context"
PrepareReturned == call.op = "prepare_context" /\ pc = "idle"
QuestionOverGate ==
    count_tokens(call.query) * 10 > TOKEN_LIMIT * QUESTION_THRESHOLD_TENTHS
TotalOnEntry ==
    count_tokens(SYSTEM_PROMPT) + count_tokens(call.context) + count_tokens(call.query)
        + SumTokens(pre_history)
SummarizeCondition ==
    /\ TotalOnEntry * 10 > TOKEN_LIMIT * SUMMARIZE_THRESHOLD_TENTHS
    /\ Len(pre_history) > 6
\* Summarization fired in this call: the older messages were formatted for the
\* summarizer.
Fired == PrepareCalled /\ conversation_text # None
OlderOnEntry == SubSeq(pre_history, 1, Len(pre_history) - 6)
RecentOnEntry == SubSeq(pre_history, Len(pre_history) - 5, Len(pre_history))
ExpectedFinalMessage ==
    [role |-> USER,
     content |-> <<"Context:\n">> \o call.context \o <<"\n\nQuestion: ">>
                     \o call.query \o <<REMEMBER>>]
AssembledTokens ==
    count_tokens(SYSTEM_PROMPT)
        + (IF summary_content # None THEN count_tokens(summary_content) ELSE 0)
        + SumTokens(chat_history)
        + count_tokens(ExpectedFinalMessage.content)

\* C1: a prepare_context call whose query counts more than token_limit *
\* question_threshold returns ([], question-too-long), leaves the history as
\* it was and makes no provider call and no summarization, also when the
\* summarization condition holds.
C1_QuestionGate ==
    (PrepareCalled /\ QuestionOverGate) =>
        /\ pc = "idle"
        /\ ret.messages = <<>>
        /\ ret.error = QUESTION_TOO_LONG
        /\ chat_history = pre_history
        /\ provider_calls = 0
        /\ sleeps = <<>>
        /\ ~Fired

C1_Witness ==
    /\ PrepareReturned
    /\ QuestionOverGate
    /\ SummarizeCondition
    /\ ret.error = QUESTION_TOO_LONG

\* C2 as stated: every returned prepare_context call left the history as it
\* was when the call began.
C2_Original == PrepareReturned => chat_history = pre_history

\* C2 amended: a prepare_context call in which the summarization condition does
\* not hold leaves the history exactly as it was; one in which it holds leaves
\* the last 6 messages of it.
C2_PrepareFrame ==
    PrepareReturned =>
        IF SummarizeCondition /\ ~QuestionOverGate
        THEN chat_history = RecentOnEntry
        ELSE chat_history = pre_history

C2_Witness ==
    /\ PrepareReturned
    /\ ~SummarizeCondition
    /\ Len(pre_history) > 6
    /\ ret.error = NoError
    /\ chat_history = pre_history

\* C3: in a call that passes the question gate summarization fires iff the
\* total exceeds token_limit * summarize_threshold and the history has more
\* than 6 messages; with 6 or fewer it never fires; after it fired and the
\* call returned the history has exactly 6 messages.
C3_SummarizationTrigger ==
    (PrepareCalled /\ ~QuestionOverGate) =>
        /\ Fired <=> SummarizeCondition
        /\ call.needs_summarization <=> SummarizeCondition
        /\ Len(pre_history) <= 6 => (~Fired /\ provider_calls = 0)
        /\ (Fired /\ pc = "idle") => Len(chat_history) = 6

C3_Witness ==
    /\ PrepareReturned
    /\ Fired
    /\ Len(pre_history) = 8
    /\ Len(chat_history) = 6

\* C4: when summarization fires on history H the summarizer's text is the
\* formatting of H[:-6] and, once the call returned, the history is H[-6:];
\* the two parts make up H.
C4_Partition ==
    Fired =>
        /\ conversation_text = ConversationText(OlderOnEntry)
        /\ pc = "idle" =>
              /\ chat_history = RecentOnEntry
              /\ OlderOnEntry \o chat_history = pre_history
              /\ Len(OlderOnEntry) + Len(chat_history) = Len(pre_history)

C4_Witness ==
    /\ PrepareReturned
    /\ Fired
    /\ Len(pre_history) >= 10
    /\ BigAnswers(OlderOnEntry) = 1
    /\ BigAnswers(chat_history) = 1

\* C5: a message sequence returned with error None sums to at most
\* token_limit; whenever the assembled messages sum to more, the call returns
\* ([], conversation-too-long).
C5_HardCeiling ==
    (PrepareReturned /\ ~QuestionOverGate) =>
        /\ ret.error = NoError => SumTokens(ret.messages) <= TOKEN_LIMIT
        /\ AssembledTokens > TOKEN_LIMIT =>
              (ret.messages = <<>> /\ ret.error = CONVERSATION_TOO_LONG)
        /\ ret.error \in {NoError, CONVERSATION_TOO_LONG}

C5_Witness ==
    /\ PrepareReturned
    /\ ret.error = NoError
    /\ SumTokens(ret.messages) = TOKEN_LIMIT

\* C6 as stated: the conversation-too-long error is returned only after
\* summarization ran (and truncated the history) in that call.
C6_Original ==
    (PrepareReturned /\ ret.error = CONVERSATION_TOO_LONG) =>
        (Fired /\ Len(pre_history) > 6 /\ chat_history = RecentOnEntry)

\* C6 amended: the conversation-too-long error is returned exactly when the
\* assembled messages exceed token_limit, whether or not summarization ran in
\* that call; the history was truncated to its last 6 messages if the
\* summarization condition held and is as it was otherwise (an empty history
\* or one of 6 or fewer messages included).
C6_TooLongError ==
    (PrepareReturned /\ ~QuestionOverGate) =>
        /\ ret.error = CONVERSATION_TOO_LONG <=> AssembledTokens > TOKEN_LIMIT
        /\ ret.error = CONVERSATION_TOO_LONG =>
              /\ Fired <=> SummarizeCondition
              /\ Fired => (chat_history = RecentOnEntry /\ Len(chat_history) = 6)
              /\ ~Fired => chat_history = pre_history

C6_Witness ==
    /\ PrepareReturned
    /\ ret.error = CONVERSATION_TOO_LONG
    /\ ~Fired
    /\ pre_history = <<>>

\* C7: whatever the summarizing provider call does, summarize_messages returns
\* a non-empty text that begins with the marker, the call returns normally,
\* and a model that gave no summary (None or empty) yields the deterministic
\* fallback over the older messages.
C7_SummaryNeverFails ==
    /\ pc = "summarizing" =>
          (Fired /\ call.attempt <= max_retries /\ provider_calls = call.attempt)
    /\ (Fired /\ pc = "idle") =>
          /\ summary_content # None
          /\ summary_content # <<>>
          /\ Len(summary_content) >= 2
          /\ summary_content[1] = MARKER
          /\ provider_calls <= max_retries + 1
          /\ (model_summary = None \/ model_summary = <<>>) =>
                summary_content = FallbackSummary(FormattedMessages(OlderOnEntry))
          /\ (model_summary # None /\ model_summary # <<>>) =>
                summary_content = <<MARKER, "\n">> \o model_summary

C7_Witness ==
    /\ Fired
    /\ pc = "idle"
    /\ provider_calls = max_retries + 1
    /\ model_summary = None
    /\ summary_content[1] = MARKER

\* The fallback was used in the returned call.
FallbackUsed == Fired /\ pc = "idle" /\ (model_summary = None \/ model_summary = <<>>)
FallbackShown(count) ==
    LET f == FormattedMessages(OlderOnEntry)
    IN IF Len(f) > 10
       THEN summary_content =
                <<MARKER, "\n">>
                    \o Join("\n", SubSeq(f, 1, 5))
                    \o <<ELISION>>
                    \o Join("\n", SubSeq(f, Len(f) - 4, Len(f)))
                    \o <<"\n\nIn total: ", ToString(count), " exchanges summarized.">>
       ELSE summary_content = <<MARKER, "\n">> \o Join("\n", f)

\* C8 as stated: with more than 10 older messages the fallback ends with the
\* count of the messages left out.
C8_Original == FallbackUsed => FallbackShown(Len(OlderOnEntry) - 10)

\* C8 amended: with more than 10 older messages the fallback is the first 5
\* and the last 5 formatted messages with the elision marker between them and
\* the count of all older messages (len(older), those shown included); with
\* 10 or fewer it is every older message, in order.
C8_FallbackSummary == FallbackUsed => FallbackShown(Len(OlderOnEntry))

C8_Witness ==
    /\ FallbackUsed
    /\ Len(OlderOnEntry) = 12
    /\ summary_content[Len(summary_content) - 1] = "12"

\* C9: the stored history holds USER and ASSISTANT messages only, and a
\* prepare_context call that does not summarize returns no summary message.
C9_SummaryTransient ==
    /\ \A i \in 1..Len(chat_history) : chat_history[i].role \in {USER, ASSISTANT}
    /\ \A i \in 1..Len(chat_history) : chat_history[i].content[1] # MARKER
    /\ (PrepareReturned /\ ~Fired) =>
          \A i \in 2..Len(ret.messages) :
             /\ ret.messages[i].role # SYSTEM
             /\ ret.messages[i].content[1] # MARKER

C9_Witness ==
    /\ PrepareReturned
    /\ prev_summarized
    /\ ~Fired
    /\ ret.error = NoError
    /\ Len(ret.messages) = 8

\* C10: a successful result is the SYSTEM prompt, then one SYSTEM summary
\* message iff summarization fired, then the history in order, then the final
\* USER message; its length is 1 + (1 if summarized) + len(history) + 1.
C10_AssemblyOrder ==
    (PrepareReturned /\ ret.error = NoError) =>
        LET m == ret.messages
            k == IF Fired THEN 1 ELSE 0
        IN /\ Len(m) = 1 + k + Len(chat_history) + 1
           /\ m[1] = [role |-> SYSTEM, content |-> SYSTEM_PROMPT]
           /\ Fired => m[2] = [role |-> SYSTEM, content |-> summary_content]
           /\ \A i \in 1..Len(chat_history) : m[1 + k + i] = chat_history[i]
           /\ m[Len(m)] = ExpectedFinalMessage
           /\ Cardinality({i \in 1..Len(m) : m[i].role = SYSTEM}) = 1 + k

C10_Witness ==
    /\ PrepareReturned
    /\ ret.error = NoError
    /\ Fired
    /\ Len(ret.messages) = 9
    /\ BigAnswers(chat_history) = 1


\* ---------------------------------------------------- claims on the adapters
\* The adapter has called prepare_context and is past it.
PastPrepare == frame.prepared /\ frame.stage \in {"chatting", "returned"}
AdapterReturned == frame.prepared /\ frame.stage = "returned"
\* The history as prepare_context left it: the last six messages of what the
\* query found if summarization fired, all of it otherwise.
HistoryAfterPrepare ==
    IF Fired
    THEN SubSeq(frame.entry_history, Len(frame.entry_history) - 5,
                Len(frame.entry_history))
    ELSE frame.entry_history
LastAttempt == frame.attempts[Len(frame.attempts)]
Succeeded == frame.attempts # <<>> /\ LastAttempt = "response"
ProviderName ==
    [p \in AdapterProviders |->
        CASE p = "groq" -> "Groq" [] p = "openai" -> "OpenAI"
          [] p = "gemini" -> "Gemini" [] p = "deepseek" -> "Deepseek"]
NamesProvider(text) ==
    \E i \in 1..Len(text) : text[i] = ProviderName[frame.api_provider]
SuggestsAlternatives(text) ==
    \E i \in 1..Len(text) :
        text[i] \in {"Switch to another LLM provider", "switch to another LLM provider"}
\* A transient server-side failure of this adapter's provider.
Transient(kind) ==
    \/ kind = "InternalServerError"
    \/ frame.api_provider = "gemini" /\ kind = "ServiceUnavailable"
RateLimitKind == IF frame.api_provider = "gemini" THEN "ResourceExhausted" ELSE "RateLimitError"
\* The sleeps the backoff rule asks for: one second after a transient first
\* attempt, two after a transient second one.
ExpectedSleeps ==
    LET n == Cardinality({i \in 1..Len(frame.attempts) :
                             i <= 2 /\ Transient(frame.attempts[i])})
    IN IF n = 0 THEN <<>> ELSE IF n = 1 THEN <<1>> ELSE <<1, 2>>

\* C11: whatever queries and clear_history calls have run, the chat history
\* has even length and its roles alternate USER, ASSISTANT from USER on; the
\* truncation to the last six messages keeps it so.
C11_PairInvariant ==
    /\ Len(chat_history) % 2 = 0
    /\ \A i \in 1..Len(chat_history) :
          chat_history[i].role = IF i % 2 = 1 THEN USER ELSE ASSISTANT

\* A query that found eight messages, truncated them to six and committed its
\* exchange.
C11_Witness ==
    /\ AdapterReturned
    /\ Fired
    /\ Len(frame.entry_history) = 8
    /\ Succeeded
    /\ Len(chat_history) = 8

\* C12: add_exchange runs exactly once, after the attempt that succeeds, and
\* appends USER(query), ASSISTANT(answer) to the history prepare_context left;
\* on every other path (sizing error, advisory, exhaustion, unexpected error,
\* failed attempts so far) it has not run and the history is as
\* prepare_context left it.
C12_CommitOnlyOnSuccess ==
    PastPrepare =>
        /\ frame.added = IF Succeeded THEN 1 ELSE 0
        /\ chat_history =
              IF Succeeded
              THEN HistoryAfterPrepare
                      \o <<[role |-> USER, content |-> frame.query],
                           [role |-> ASSISTANT, content |-> frame.result]>>
              ELSE HistoryAfterPrepare

\* A first attempt failed, the retry succeeded: one exchange on a history that
\* was not empty.
C12_Witness ==
    /\ AdapterReturned
    /\ frame.attempts = <<"InternalServerError", "response">>
    /\ frame.entry_history # <<>>
    /\ frame.result = <<"aB">>

\* C13: with max_retries = 2 an adapter makes at most three chat attempts,
\* sleeps one second after a transient first failure and two after a transient
\* second one and never after the third; two transient failures and then a
\* success return the success value after sleeps of exactly 1 and 2.
C13_RetryBackoff ==
    (frame.prepared /\ frame.retries = DEFAULT_MAX_RETRIES) =>
        /\ Len(frame.attempts) <= 3
        /\ frame.chat_sleeps = ExpectedSleeps
        /\ (/\ Len(frame.attempts) = 3
            /\ Transient(frame.attempts[1])
            /\ Transient(frame.attempts[2])
            /\ frame.attempts[3] = "response")
           => /\ frame.stage = "returned"
              /\ frame.result \in Answers
              /\ frame.result = chat_history[Len(chat_history)].content
              /\ frame.chat_sleeps = <<1, 2>>

\* Gemini: a server error, then unavailability, then the answer.
C13_Witness ==
    /\ AdapterReturned
    /\ frame.api_provider = "gemini"
    /\ frame.attempts = <<"InternalServerError", "ServiceUnavailable", "response">>
    /\ frame.chat_sleeps = <<1, 2>>

\* The attempt just made raised one of these: the adapter has returned a text
\* of its own for that failure, naming its provider, without a sleep after
\* the attempt and without an exchange.
ReturnsAtOnce(kinds) ==
    (PastPrepare /\ frame.attempts # <<>> /\ LastAttempt \in kinds) =>
        /\ frame.stage = "returned"
        /\ frame.result # None
        /\ frame.result[2] \in {"Rate limit exceeded for ", "Failed to connect to "}
        /\ NamesProvider(frame.result)
        /\ Len(frame.chat_sleeps) = Len(frame.attempts) - 1
        /\ frame.added = 0
        /\ chat_history = HistoryAfterPrepare

\* C14 as stated: in each of the four adapters a rate-limit error or a
\* connection error (for Gemini: the service cannot be reached,
\* ServiceUnavailable) returns an advisory at once.
C14_Original ==
    ReturnsAtOnce({RateLimitKind,
                   IF frame.api_provider = "gemini" THEN "ServiceUnavailable"
                   ELSE "APIConnectionError"})

\* C14: a rate-limit error in any of the four adapters, and a connection error
\* in the Groq, OpenAI and Deepseek adapters, returns at once an advisory that
\* names the provider, with no further attempt, no sleep and no exchange; the
\* Gemini adapter has no connection clause and retries ServiceUnavailable with
\* a sleep while retries remain.
C14_NonRetryable ==
    /\ ReturnsAtOnce({RateLimitKind}
                        \cup (IF frame.api_provider = "gemini" THEN {}
                              ELSE {"APIConnectionError"}))
    /\ (/\ PastPrepare
        /\ frame.api_provider = "gemini"
        /\ frame.attempts # <<>>
        /\ LastAttempt = "ServiceUnavailable"
        /\ Len(frame.attempts) <= frame.retries)
       => /\ frame.stage = "chatting"
          /\ Len(frame.chat_sleeps) = Len(frame.attempts)

\* Deepseek: a connection error on the attempt that followed a retry.
C14_Witness ==
    /\ AdapterReturned
    /\ frame.api_provider = "deepseek"
    /\ frame.attempts = <<"InternalServerError", "APIConnectionError">>
    /\ frame.chat_sleeps = <<1>>

\* C15: three transient failures in a row (max_retries = 2) end in a returned
\* advisory that names the provider and suggests switching; there is no fourth
\* attempt and the history holds no exchange of this query.
C15_RetryExhaustion ==
    (/\ frame.prepared
     /\ frame.retries = DEFAULT_MAX_RETRIES
     /\ Len(frame.attempts) >= 3
     /\ \A i \in 1..3 : Transient(frame.attempts[i]))
    => /\ Len(frame.attempts) = 3
       /\ frame.stage = "returned"
       /\ frame.result # None
       /\ frame.result[1] = WARNING_SIGN
       /\ NamesProvider(frame.result)
       /\ SuggestsAlternatives(frame.result)
       /\ frame.added = 0
       /\ chat_history = HistoryAfterPrepare

\* Gemini exhausts its attempts on unavailability, with a history present.
C15_Witness ==
    /\ AdapterReturned
    /\ frame.api_provider = "gemini"
    /\ frame.attempts = <<"InternalServerError", "InternalServerError", "ServiceUnavailable">>
    /\ frame.entry_history # <<>>

\* C16: whatever prepare_context and the attempts did and whatever
\* max_retries is, an adapter that has returned has returned a text, not None.
C16_AlwaysText ==
    (frame.entry = "adapter" /\ frame.stage = "returned") => frame.result # None

\* C18: when prepare_context returned an error the adapter has returned
\* exactly that string, having made no chat request.
C18_SizingPassthrough ==
    (frame.prepared /\ PrepareReturned /\ ret.error # NoError) =>
        /\ ret.error \in {QUESTION_TOO_LONG, CONVERSATION_TOO_LONG}
        /\ frame.stage = "returned"
        /\ frame.result = <<ret.error>>
        /\ frame.attempts = <<>>
        /\ frame.added = 0

\* The conversation is too long even after a summarization that asked the
\* provider: summarizing requests were made, chat requests were not.
C18_Witness ==
    /\ AdapterReturned
    /\ ret.error = CONVERSATION_TOO_LONG
    /\ provider_calls > 0
    /\ frame.result = <<CONVERSATION_TOO_LONG>>


\* ------------------------------- claims on query_documents and process_query
\* process_query has been called, directly or by query_documents past its gate.
ProcessQueryCalled ==
    \/ frame.entry = "process_query"
    \/ frame.entry = "query_documents" /\ frame.context # <<>>
\* None, empty or nothing but blanks.
BlankKey(key) == key = None \/ \A i \in 1..Len(key) : key[i] \in {" ", "\n"}
ConfigurationError ==
    \/ frame.api_provider \notin {"groq", "openai", "gemini", "deepseek"}
    \/ BlankKey(frame.api_keys[frame.api_provider])
\* Nothing of the memory manager or of a provider was touched by this call.
NothingCalled ==
    /\ ~frame.prepared
    /\ call.op # "prepare_context"
    /\ provider_calls = 0
    /\ frame.attempts = <<>>
    /\ frame.chat_sleeps = <<>>
    /\ frame.added = 0
    /\ chat_history = frame.entry_history
ErrorReturned ==
    /\ frame.stage = "returned"
    /\ frame.result # None
    /\ frame.result[1] = "Error: "
    /\ NothingCalled

BestWithinCeiling ==
    \E i \in 1..Len(frame.results) : frame.results[i].distance <= 700

\* C19: when the search returns nothing or every distance is above 0.7,
\* query_documents returns the fallback sentence, no provider was asked and
\* the history is as it was; when the best distance is 0.7 or less, the query
\* reaches process_query and, with a provider and key in order, the adapter.
C19_RelevanceGate ==
    frame.entry = "query_documents" =>
        /\ ~BestWithinCeiling
           => /\ frame.stage = "returned"
              /\ frame.result = <<"I don't have enough information to answer this question.">>
              /\ NothingCalled
        /\ BestWithinCeiling
           => /\ ProcessQueryCalled
              /\ ~ConfigurationError => frame.prepared

\* The best distance is 0.701, the provider and its key are in order, the
\* history is not empty.
C19_Witness ==
    /\ frame.entry = "query_documents"
    /\ frame.stage = "returned"
    /\ frame.results # <<>>
    /\ frame.results[1].distance = 701
    /\ ~ConfigurationError
    /\ frame.query = <<"q">>
    /\ chat_history # <<>>
    /\ frame.result = <<FALLBACK_SENTENCE>>

\* C20: past the gate the context holds every retrieved chunk, those beyond
\* 0.7 too: after the heading, for k = 1..N in retrieval order, the label
\* "Source k", the chunk's source and its text, and no other label.
C20_AllChunksLabelled ==
    (frame.entry = "query_documents" /\ BestWithinCeiling) =>
        /\ \A k \in 1..Len(frame.results) :
              LET j == 8 * (k - 1) + 2
              IN /\ j + 6 <= Len(frame.context)
                 /\ frame.context[j] = "Source "
                 /\ frame.context[j + 1] = ToString(k)
                 /\ frame.context[j + 3] = frame.results[k].source
                 /\ frame.context[j + 6] = frame.results[k].doc
        /\ Cardinality({j \in 1..Len(frame.context) : frame.context[j] = "Source "})
              = Len(frame.results)

\* Distances 0.3, 0.5, 0.9: three sources in the context the adapter got.
C20_Witness ==
    /\ frame.entry = "query_documents"
    /\ frame.prepared
    /\ Len(frame.results) = 3
    /\ frame.results[3].distance = 900
    /\ call.context = frame.context
    /\ Succeeded


\* ------------------------------------------- claims on the summarizing call
\* C21: the summarizing call makes at most three requests and sleeps 1 then
\* 2 seconds between them, and a request that raises a rate-limit error or a
\* connection error ends the model attempt at once: no sleep follows and
\* prepare_context goes on with the fallback summary.
C21_SummaryRetryPolicy ==
    [][/\ provider_calls' <= 3
       /\ sleeps' \in {<<>>, <<1>>, <<1, 2>>}
       /\ \A kind \in {"RateLimitError", "APIConnectionError"} :
             SummarizeAttempt([kind |-> kind, text |-> None])
                => (pc' = "idle" /\ sleeps' = sleeps /\ model_summary' = None)]_vars


\* ------------------------------------------------ claims on clear_history
\* The query and context of a call fit: the question passes its gate and the
\* system prompt with the final user message is within the token limit.
FitsAlone ==
    /\ ~QuestionOverGate
    /\ count_tokens(SYSTEM_PROMPT) + count_tokens(ExpectedFinalMessage.content)
          <= TOKEN_LIMIT

\* C24: after clear_history the history is empty whatever it held, and the
\* prepare_context that comes next summarizes nothing, asks no provider and,
\* when query and context fit, returns exactly the SYSTEM prompt and the final
\* USER message.
C24_ClearHistory ==
    [][/\ (call.op = "clear_history" => chat_history = <<>>)'
       /\ (call.op = "clear_history" /\ call'.op = "prepare_context")
          => /\ pc' = "idle"
             /\ ~Fired'
             /\ provider_calls' = 0
             /\ chat_history' = <<>>
             /\ ret'.summarized = FALSE
             /\ FitsAlone'
                => /\ ret'.error = NoError
                   /\ ret'.messages = <<[role |-> SYSTEM, content |-> SYSTEM_PROMPT],
                                        ExpectedFinalMessage'>>]_vars

\* clear_history has emptied a history of eighteen messages.
C24_Witness ==
    /\ call.op = "clear_history"
    /\ Len(pre_history) = 18
    /\ chat_history = <<>>


\* ------------------------------------------------- claims on count_tokens
\* C26: for every text count_tokens returns a non-negative integer, 0 for
\* the empty text and the sum over the text's pieces whatever provider is
\* selected, and leaves the chat history as it was.
C26_TokenCounter ==
    frame.entry = "count_tokens" =>
        /\ frame.stage = "returned"
        /\ frame.count \in Nat
        /\ frame.query = <<>> => frame.count = 0
        /\ \A text \in TokenTexts :
              (frame.query = text \o text) => frame.count = 2 * count_tokens(text)
        /\ chat_history = frame.entry_history


\* ------------------------------------- claims on prepare_context's results
\* C27: the third value prepare_context returns is true exactly when the call
\* truncated the chat history, on every return path.
C27_SummarizedFlag ==
    PrepareReturned =>
        (ret.summarized <=> (Len(chat_history) < Len(pre_history)
                                /\ chat_history = RecentOnEntry))


\* C28: whenever summarization fired, the summary message counts fewer tokens
\* than the older messages it replaces, the fallback summary included.
C28_SummaryReclaims ==
    (Fired /\ pc = "idle") =>
        count_tokens(summary_content) < SumTokens(OlderOnEntry)


\* ------------------------------------------------ claims on the overflow
\* Six or fewer messages that, with the system prompt, exceed the limit.
Overflowed(history) ==
    /\ Len(history) <= 6
    /\ SumTokens(history) + count_tokens(SYSTEM_PROMPT) > TOKEN_LIMIT
\* An adapter call that found such a history did nothing to it: no
\* summarization, no chat request, no exchange.
LeftAsFound ==
    /\ frame.stage = "returned"
    /\ ~Fired
    /\ provider_calls = 0
    /\ frame.attempts = <<>>
    /\ frame.added = 0
    /\ chat_history = frame.entry_history
\* A query on a history just cleared fits alone and gets past prepare_context.
RecoversAfterClear ==
    (call.op = "clear_history" /\ frame'.prepared /\ FitsAlone')
        => (ret'.error = NoError /\ frame'.stage = "chatting")

\* C29 as stated: every query on an overflowed history returns the
\* conversation-too-long error and leaves the history as it was.
C29_Original ==
    (frame.prepared /\ Overflowed(frame.entry_history)) =>
        (LeftAsFound /\ frame.result = <<CONVERSATION_TOO_LONG>>)

\* C29: every query on an overflowed history returns a sizing error (the
\* question-too-long error if the question is over its gate, the
\* conversation-too-long error otherwise) and leaves the history as it was, so
\* the next query finds it overflowed again; a query on the history
\* clear_history has just emptied, fitting alone, passes prepare_context.
C29_StickyOverflow ==
    [][/\ ((frame.prepared /\ Overflowed(frame.entry_history)) =>
              /\ LeftAsFound
              /\ frame.result = IF QuestionOverGate THEN <<QUESTION_TOO_LONG>>
                                ELSE <<CONVERSATION_TOO_LONG>>)'
       /\ RecoversAfterClear]_vars

\* The fourth message overflowed the history; the query after it, with a
\* question within the gate, is refused.
C29_Witness ==
    /\ frame.prepared
    /\ frame.stage = "returned"
    /\ Overflowed(frame.entry_history)
    /\ Len(frame.entry_history) = 4
    /\ frame.query = <<"q">>
    /\ frame.result = <<CONVERSATION_TOO_LONG>>

\* ------------------------------------------------- claims on the documents
\* The listing has an entry of this name.
Listed(listing, name) == \E i \in 1..Len(listing) : listing[i].name = name

\* The name of the listed document that holds this id, if any.
OwnersOf(listing, doc_id) ==
    {listing[i].name : i \in {k \in 1..Len(listing) :
                                 \E n \in 1..Len(listing[k].ids) :
                                    listing[k].ids[n] = doc_id}}

\* C22: after an upload that reported success the listing has an entry for
\* the file with chunks >= 1; after a delete called with an id of a listed
\* document the listing no longer has that document, whatever its number of
\* chunks.
C22_RoundTrip ==
    LET listing == get_uploaded_documents(collection)
    IN /\ (last_doc.op = "upload" /\ last_doc.success)
            => \E i \in 1..Len(listing) :
                  listing[i].name = last_doc.filename /\ listing[i].chunks >= 1
       /\ last_doc.op = "delete"
            => \A name \in OwnersOf(last_doc.before, last_doc.doc_id) :
                  ~Listed(listing, name)

\* C22, its halves apart: the upload half, and the delete half.
C22_UploadListed ==
    (last_doc.op = "upload" /\ last_doc.success)
        => Listed(get_uploaded_documents(collection), last_doc.filename)
C22_DeleteUnlists ==
    last_doc.op = "delete"
        => \A name \in OwnersOf(last_doc.before, last_doc.doc_id) :
              ~Listed(get_uploaded_documents(collection), name)
\* A document of one chunk does leave the listing.
C22_OneChunkDeleted ==
    /\ last_doc.op = "delete"
    /\ OwnersOf(last_doc.before, last_doc.doc_id) = {"note.txt"}
    /\ ~Listed(get_uploaded_documents(collection), "note.txt")

\* C23: the ids an indexing upload generates are those the first indexing
\* upload of the same file generated, and an upload of the file that was
\* uploaded just before leaves the ids of the index as they were.
C23_IdempotentIngestion ==
    [][/\ (last_doc.op = "upload" /\ last_doc.success
              => \A r \in first_ids :
                    (/\ r.file.filename = last_doc.filename
                     /\ r.file.documents = last_doc.documents) => r.ids = last_doc.ids)'
       /\ (/\ last_doc.op = "upload" /\ last_doc.success
           /\ last_doc'.op = "upload" /\ last_doc'.filename = last_doc.filename
           /\ last_doc'.documents = last_doc.documents)
             => Ids(collection') = Ids(collection)]_vars

\* long.txt indexed, deleted, indexed again and uploaded once more: the index
\* holds the two ids of the first upload.
C23_Witness ==
    /\ last_doc.op = "upload" /\ last_doc.filename = "long.txt"
    /\ ~last_doc.success
    /\ Listed(last_doc.before, "long.txt")
    /\ \E r \in first_ids :
          /\ r.file.filename = "long.txt" /\ r.again
          /\ Len(r.ids) = 2
          /\ Ids(collection) = r.ids

\* ------------------------------------------------- claims on the key store
\* C25: the key an adapter is called with, and hands to prepare_context for
\* the summarizing requests, is the stripped key of the request; a request
\* without a key is refused before anything is called, whatever the key
\* store holds; and no step changes both the key store and anything of the
\* queries (frame, history, memory manager).
C25_KeysFromRequest ==
    [][/\ (frame.prepared
              => /\ frame.api_key = Strip(frame.api_keys[frame.api_provider])
                 /\ Truthy(frame.api_key)
                 /\ get_key(frame.api_key) = frame.api_key)'
       /\ (ProcessQueryCalled /\ ConfigurationError
              => /\ frame.stage = "returned"
                 /\ frame.result = KeyNotConfigured(frame.api_provider)
                 /\ NothingCalled)'
       /\ key_store' # key_store => UNCHANGED <<chat_history, frame, memory>>]_vars

\* A query with the key " k " answered after a summarization, while the store
\* holds another key for its provider and another provider is selected.
C25_Witness ==
    /\ frame.entry = "query_documents" /\ frame.stage = "returned"
    /\ frame.api_keys[frame.api_provider] = <<" ", "k", " ">>
    /\ frame.api_key = <<"k">>
    /\ key_store.api_keys[frame.api_provider] = <<"kS">>
    /\ key_store.selected_provider # frame.api_provider
    /\ Fired /\ provider_calls > 0
    /\ frame.result = <<"aS">>

\* A query without a key refused while the store holds a key for its provider.
C25_RefusedWithSavedKey ==
    /\ frame.entry = "query_documents" /\ frame.stage = "returned"
    /\ BlankKey(frame.api_keys[frame.api_provider])
    /\ key_store.api_keys[frame.api_provider] = <<"kS">>
    /\ key_store.selected_provider = frame.api_provider
    /\ frame.result = KeyNotConfigured(frame.api_provider)

\* ------------------------------------------------- claims on the two threads
\* C30: every message a thread's truncation removed was in the older prefix
\* that the same prepare_context call handed to summarize_messages.
C30_NoUnsummarizedDrop ==
    \A t \in Threads : threads[t].removed \subseteq threads[t].older

\* C31: once no add_exchange is under way, every USER message of the history
\* is followed at once by an ASSISTANT message, the history begins with a
\* USER message and its length is even.
C31_ExchangeAtomicity ==
    (\A t \in Threads : threads[t].at # "adding")
        => /\ Len(chat_history) % 2 = 0
           /\ \A i \in 1..Len(chat_history) :
                 chat_history[i].role = IF i % 2 = 1 THEN USER ELSE ASSISTANT

\* ------------------------------------------------- claims on the work of a query
RECURSIVE SumOf(_)
SumOf(numbers) == IF numbers = <<>> THEN 0 ELSE Head(numbers) + SumOf(Tail(numbers))

\* The provider requests a query may still make.
WorkLeft == (3 - provider_calls) + (3 - Len(frame.attempts))

\* C32: a query makes at most 3 summarizing and 3 chat requests and sleeps at
\* most 3 s in each of the two loops; every step of a query that waits for a
\* provider uses up one of these requests, so that after at most 6 such
\* steps the query has returned.
C32_BoundedWork ==
    [][/\ (/\ provider_calls <= 3
           /\ Len(frame.attempts) <= 3
           /\ SumOf(sleeps) <= 3
           /\ SumOf(frame.chat_sleeps) <= 3
           /\ WorkLeft >= 0)'
       /\ frame.stage \in {"preparing", "chatting"}
             => /\ WorkLeft' < WorkLeft
                /\ frame'.stage \in {"preparing", "chatting", "returned"}
                /\ (WorkLeft' = 0 => frame'.stage = "returned")]_vars

\* A query through query_documents that used all of it: 3 summarizing
\* requests, 3 chat requests, 3 s of sleep in each loop.
C32_Witness ==
    /\ frame.entry = "query_documents" /\ frame.stage = "returned"
    /\ provider_calls = 3 /\ Len(frame.attempts) = 3
    /\ sleeps = <<1, 2>> /\ frame.chat_sleeps = <<1, 2>>

\* ------------------------------------------------- claims on what is committed
\* Text that holds nothing of a retrieved context nor of the frame the final
\* USER message puts around it.
ContextFree(content) ==
    \A i \in 1..Len(content) :
        content[i] \notin {"cB", "cH", "cM", "Context:\n", "\n\nQuestion: ", REMEMBER}

\* C33: the USER message a successful query appends has the query text as its
\* content; no message of the history holds context, and of the messages
\* prepare_context assembles only the last one, the final USER message of the
\* turn, does.
C33_RawQuestionCommitted ==
    /\ \A i \in 1..Len(chat_history) : ContextFree(chat_history[i].content)
    /\ (AdapterReturned /\ Succeeded)
          => chat_history[Len(chat_history) - 1] = [role |-> USER, content |-> frame.query]
    /\ (PrepareReturned /\ ret.error = NoError)
          => /\ \A i \in 1..(Len(ret.messages) - 1) : ContextFree(ret.messages[i].content)
             /\ ~ContextFree(ret.messages[Len(ret.messages)].content)

\* A later turn answered after a summarization of earlier turns that had a
\* context each.
C33_Witness ==
    /\ AdapterReturned /\ Succeeded
    /\ Fired
    /\ frame.context = <<"cB">>
    /\ Len(frame.entry_history) = 8
    /\ Len(chat_history) = 8

\* ------------------------------------------------- claims on the chunk ids
\* C34: the ids an upload hands to collection.add are pairwise distinct.
C34_IdsUniqueInUpload ==
    last_doc.op = "upload"
        => \A i, j \in 1..Len(last_doc.ids) :
              last_doc.ids[i] = last_doc.ids[j] => i = j

\* ------------------------------------------------- claims on duplicate names
\* C35: an upload under a filename that the listing holds returns the
\* 'already exists. Upload cancelled.' message and leaves the collection as
\* it was, whatever the file holds.
C35_DuplicateNameRejected ==
    [][(last_doc'.op = "upload"
          /\ Listed(get_uploaded_documents(collection), last_doc'.filename))
         => /\ last_doc'.message = <<"Document '", last_doc'.filename,
                                    "' already exists. Upload cancelled.">>
            /\ ~last_doc'.success
            /\ collection' = collection]_vars

\* note.txt uploaded again with other content while its first chunk is stored.
C35_Witness ==
    /\ last_doc.op = "upload" /\ last_doc.filename = "note.txt"
    /\ last_doc.documents = <<<<"s300">>>>
    /\ last_doc.message = <<"Document '", "note.txt", "' already exists. Upload cancelled.">>
    /\ \E i \in 1..Len(collection) :
          collection[i].source = "note.txt" /\ collection[i].document = <<"s40">>
    /\ \A i \in 1..Len(collection) : collection[i].document # <<"s300">>

\* ------------------------------------------------- claims on the chunkers
\* C36: chunk_document returns no chunk for a blank text and at least one for
\* any other; the chunks carry chunk_index 0, 1, .., n-1 in order and every
\* total_chunks is n, the number of chunks returned.
C36_ChunkMetadata ==
    chunker.op = "chunk_document"
        => /\ (chunker.chunks = <<>>) <=> (\A i \in 1..Len(chunker.text) :
                                              IsSpace(chunker.text[i]))
           /\ \A i \in 1..Len(chunker.chunks) :
                 /\ chunker.chunks[i].chunk_index = i - 1
                 /\ chunker.chunks[i].total_chunks = Len(chunker.chunks)

\* Three chunks were cut and the one too small was filtered out: two are
\* returned.
C36_Witness ==
    /\ chunker.op = "chunk_document"
    /\ chunker.text = <<"s300", "s300b", "s200", "s40">>
    /\ Len(chunk_text(chunker.text)) = 3
    /\ Len(chunker.chunks) = 2
    /\ chunker.chunks[2].chunk_index = 1

\* C37: each pass of the fixed-size chunker's loop moves start forward, start
\* never passes the end of the text by more than chunk_size, and when the
\* chunker returns every character position of the text lies in a chunk.
C37_FixedChunking ==
    [][/\ (chunker.op = "fixed" /\ chunker.at = "loop" /\ chunker'.at = "loop")
             => /\ chunker'.start > chunker.start
                /\ chunker'.start <= Len(chunker.text) + chunker.chunk_size
       /\ (chunker.op = "fixed" /\ chunker.at = "returned"
              => /\ \A pos \in 0..(Len(chunker.text) - 1) :
                       \E i \in 1..Len(chunker.spans) :
                          chunker.spans[i].from <= pos /\ pos < chunker.spans[i].to
                 /\ \A i \in 1..Len(chunker.spans) :
                       chunker.chunks[i] = Slice(chunker.text, chunker.spans[i].from,
                                                 chunker.spans[i].to)
                 /\ Len(chunker.chunks) <= Len(chunker.text) + 1)']_vars

\* A text cut at a separator, with overlap, in more than two passes.
C37_Witness ==
    /\ chunker.op = "fixed" /\ chunker.at = "returned"
    /\ chunker.chunk_overlap = 1 /\ chunker.chunk_size = 3
    /\ Len(chunker.text) = 6
    /\ Len(chunker.spans) > 2
    /\ \E i \in 1..Len(chunker.spans) :
          chunker.spans[i].to - chunker.spans[i].from < chunker.chunk_size
          /\ chunker.spans[i].to < Len(chunker.text)

\* ------------------------------------------------ claims on the summary text
\* How many times the marker stands in a text.
Markers(text) == Cardinality({i \in 1..Len(text) : text[i] = MARKER})
\* The text summarize_messages put the marker in front of: the model's
\* summary, or the fallback's listing of the older messages.
Wrapped ==
    IF Truthy(model_summary) THEN model_summary
    ELSE SubSeq(FallbackSummary(FormattedMessages(OlderOnEntry)), 3,
                Len(FallbackSummary(FormattedMessages(OlderOnEntry))))

\* C38: what summarize_messages returned begins with the marker, so the test
\* of the branch of prepare_context that adds the marker is false; the text
\* holds the marker once more than the text it was put in front of; and the
\* summary SYSTEM message, the only SYSTEM message after the prompt, carries
\* the returned summary unchanged.
C38_WrappedOnce ==
    (Fired /\ pc = "idle") =>
        /\ Len(summary_content) >= 2
        /\ summary_content[1] = MARKER
        /\ summary_content = <<MARKER, "\n">> \o Wrapped
        /\ Markers(summary_content) = 1 + Markers(Wrapped)
        /\ ~(Truthy(summary_content)
               /\ \A i \in 1..Len(summary_content) : summary_content[i] # MARKER)
        /\ ret.error = NoError =>
              /\ ret.messages[2] = [role |-> SYSTEM, content |-> summary_content]
              /\ \A i \in 3..Len(ret.messages) : ret.messages[i].role # SYSTEM

\* The model opened its own text with the marker: the message carries it
\* twice, once from the model and once from the code.
C38_Witness ==
    /\ Fired /\ pc = "idle"
    /\ ret.error = NoError
    /\ model_summary = <<MARKER, "S">>
    /\ ret.messages[2].content = <<MARKER, "\n", MARKER, "S">>

=============================================================================
